---- MODULE Spec2Model ----
(***************************************************************************)
(* State-machine model of the meetbot recording server:                    *)
(*   src/server/audio.ts    WavWriter, convertFloat32ToInt16               *)
(*   src/server/session.ts  Session (frame dispatch, close, archival)      *)
(* One Session with its socket, its timers and the recordings directory,   *)
(* plus a WavWriter exercised on its own (SpecWav).                        *)
(***************************************************************************)
EXTENDS Integers, Sequences, FiniteSets, TLC

(***************************************************************************)
(* Bounds of the model.                                                    *)
(***************************************************************************)
\* frames delivered to an open session
MaxFrames == 3
\* I/O operations that may fail in one run
MaxFaults == 1
\* outcomes of generateRandomDigits(3) that are explored: 100 .. 100+NumRand-1
NumRand == 2
\* calls made on the stand-alone WavWriter of SpecWav
MaxWavOps == 5
\* completed/ directories of other meetings that already hold the archive name
MaxExisting == 1
\* messages of fewer than 4 bytes that ShortSpec follows
MaxShort == 2
\* messages handed to a session after close()
MaxAfterClose == 2
\* the longest participant id given to extractDeviceSuffix on its own
MaxIdLen == 4
\* ParticipantAudio frames given to handleParticipantAudio on its own
MaxCalcFrames == 2
\* the most pieces, between sentence ends, of a text that is summarised
MaxSentences == 7
\* the most whole samples of a payload that is converted on its own
MaxCalcSamples == 2
\* a Float32 sample is the rational q / FloatDen
FloatDen == 4
\* of the MaxFrames frames, those that carry neither audio nor an audio
\* format with a positive sample rate: video, unknown and short frames, the
\* other JSON events, and the AudioFormatUpdate events without such a rate
MaxOtherFrames == 1
\* steps of the clock that TimedSpec follows while the session is open
MaxTicks == 2

(***************************************************************************)
(* Program constants.                                                      *)
(***************************************************************************)
\* 0x7fff, audio.ts:62
Int16Max == 32767
\* Buffer.alloc(44), audio.ts:69
HeaderBytes == 44
\* chunkSize = 36 + dataLength, audio.ts:75
RiffOverhead == 36
\* bitsPerSample, audio.ts:72
BitsPerSample == 16
\* sampleRate ?? 48000, audio.ts:71
DefaultSampleRate == 48000
\* INACTIVITY_TIMEOUT_MS = 5 * 60 * 1000, session.ts:85
InactivityTimeoutMs == 300000

(***************************************************************************)
(* Small helpers.                                                          *)
(***************************************************************************)
Max(a, b) == IF a >= b THEN a ELSE b
Min(a, b) == IF a <= b THEN a ELSE b
Range(f) == {f[x] : x \in DOMAIN f}

(***************************************************************************)
(* Float32 samples and payloads.                                           *)
(* A sample is [kind, q]: kind "num" is the float q / FloatDen, the other  *)
(* kinds are the non-finite floats.  A payload is its whole samples plus   *)
(* the number of trailing bytes (0..3) that do not make up a sample.       *)
(***************************************************************************)
Num(q) == [kind |-> "num", q |-> q]
NaN == [kind |-> "nan", q |-> 0]
PosInf == [kind |-> "inf", q |-> 0]
NegInf == [kind |-> "ninf", q |-> 0]

Payload(samples, extra) == [samples |-> samples, extra |-> extra]
PayloadBytes(p) == 4 * Len(p.samples) + p.extra

\* 1.0 -> 32767
PayloadA == Payload(<<Num(FloatDen)>>, 0)
\* -0.5 -> -16383 (Math.round rounds a half up)
PayloadB == Payload(<<Num(0 - (FloatDen \div 2))>>, 0)
\* two bytes: less than one sample
PayloadPartial == Payload(<<>>, 2)
PayloadEmpty == Payload(<<>>, 0)
AudioPayloads == {PayloadA, PayloadB, PayloadPartial, PayloadEmpty}
\* the audio carried by the ParticipantAudio frames of the model: one whole
\* sample, or nothing
ParticipantPayloads == {PayloadA, PayloadEmpty}

\* a conversion that scales the negative samples by 0x8000
ConvertSampleAsymmetric(s) ==
  LET finite == IF s.kind = "num" THEN s.q ELSE 0
      clamped == Max(0 - FloatDen, Min(FloatDen, finite))
      scale == IF clamped < 0 THEN Int16Max + 1 ELSE Int16Max
  IN  (2 * clamped * scale + FloatDen) \div (2 * FloatDen)

\* audio.ts:57-62, one sample
ConvertSample(s) ==
  LET finite == IF s.kind = "num" THEN s.q ELSE 0
      clamped == Max(0 - FloatDen, Min(FloatDen, finite))
  IN  (2 * clamped * Int16Max + FloatDen) \div (2 * FloatDen)

\* readFloatLE(i * 4) runs past the end of the buffer when the length is no
\* multiple of 4: the loop index reaches the partial sample and the read throws
ConvertThrows(p) == p.extra # 0

\* audio.ts:52-66, the Int16 samples of a payload that converts
ConvertFloat32ToInt16(p) == [i \in 1..Len(p.samples) |-> ConvertSample(p.samples[i])]

(***************************************************************************)
(* Text.  A string of the program is a sequence of one-character strings,  *)
(* so that the functions that cut and join strings are computed.           *)
(***************************************************************************)
Digits == {"0", "1", "2", "3", "4", "5", "6", "7", "8", "9"}
UpperToLower == [c \in {"A", "B", "N"} |-> CASE c = "A" -> "a" [] c = "B" -> "b" [] c = "N" -> "n"]
LowerLetters == {"a", "b", "d", "i", "n", "p", "r", "t", "c",
                 "e", "m", "o", "s", "u", "v", "w", "x"}
IsAlnum(c) == c \in Digits \/ c \in LowerLetters \/ c \in DOMAIN UpperToLower
ToLower(c) == IF c \in DOMAIN UpperToLower THEN UpperToLower[c] ELSE c

RECURSIVE FilterAlnum(_)
FilterAlnum(str) ==
  IF str = <<>> THEN <<>>
  ELSE (IF IsAlnum(Head(str)) THEN <<Head(str)>> ELSE <<>>) \o FilterAlnum(Tail(str))

DigitChar(d) ==
  CASE d = 0 -> "0" [] d = 1 -> "1" [] d = 2 -> "2" [] d = 3 -> "3" [] d = 4 -> "4"
    [] d = 5 -> "5" [] d = 6 -> "6" [] d = 7 -> "7" [] d = 8 -> "8" [] d = 9 -> "9"

\* String(value) of a three-digit number, session.ts:648
ThreeDigits(n) == <<DigitChar(n \div 100), DigitChar((n \div 10) % 10), DigitChar(n % 10)>>

StrParticipant == <<"p", "a", "r", "t", "i", "c", "i", "p", "a", "n", "t">>
StrId == <<"i", "d">>

(***************************************************************************)
(* Audio formats.  A stored format is [set, sampleRate, numberOfChannels]; *)
(* NoFormat is the undefined metaState.audioFormat.                        *)
(***************************************************************************)
NoFormat == [set |-> FALSE, sampleRate |-> 0, numberOfChannels |-> 0]
Format(rate, channels) == [set |-> TRUE, sampleRate |-> rate, numberOfChannels |-> channels]

(***************************************************************************)
(* PCM container files and WavWriter (audio.ts).                           *)
(* A file is [exists, hdr, data]: the 44 header bytes as their fields and  *)
(* the data region as Int16 samples (2 bytes each).                        *)
(***************************************************************************)
\* audio.ts:68-92
CreateWaveHeader(format, dataLength) ==
  LET numChannels == Max(1, format.numberOfChannels)
      sampleRate == Max(1, format.sampleRate)
      blockAlign == numChannels * (BitsPerSample \div 8)
  IN  [chunkSize |-> RiffOverhead + dataLength,
       numChannels |-> numChannels,
       sampleRate |-> sampleRate,
       byteRate |-> sampleRate * blockAlign,
       blockAlign |-> blockAlign,
       bitsPerSample |-> BitsPerSample,
       dataLen |-> dataLength]

NoHeader == CreateWaveHeader(NoFormat, 0)
NoFile == [exists |-> FALSE, hdr |-> NoHeader, data |-> <<>>]
FileSize(f) == IF f.exists THEN HeaderBytes + 2 * Len(f.data) ELSE 0

\* a stream writes at its own position: samples land at pos+1.. and a gap left
\* behind the end of the file reads as zeros
WriteAt(data, pos, samples) ==
  LET n == Max(Len(data), pos + Len(samples))
  IN  [i \in 1..n |->
         IF i > pos /\ i <= pos + Len(samples) THEN samples[i - pos]
         ELSE IF i <= Len(data) THEN data[i] ELSE 0]

\* the WavWriter object: phase "absent" is no writer; "open" after the
\* constructor; "ending" once close() has set closed and ended the stream;
\* "done" / "failed" once the promise of close() has settled
NoWriter == [phase |-> "absent", format |-> NoFormat, bytesWritten |-> 0,
             closed |-> FALSE, pos |-> 0, hdrRewritten |-> FALSE]

\* audio.ts:17-22: createWriteStream truncates, then the placeholder header
WavNewWriter(format) ==
  [phase |-> "open", format |-> format, bytesWritten |-> 0,
   closed |-> FALSE, pos |-> 0, hdrRewritten |-> FALSE]
WavNewFile(format) == [exists |-> TRUE, hdr |-> CreateWaveHeader(format, 0), data |-> <<>>]

\* a write() without its guard on closed
WavWriteNeverRejected(w) == FALSE

\* audio.ts:24-31, on the writer and on its file
WavWriteRejected(w) == w.closed
WavWriteWriter(w, samples) ==
  IF WavWriteRejected(w) THEN w
  ELSE [w EXCEPT !.bytesWritten = @ + 2 * Len(samples), !.pos = @ + Len(samples)]
WavWriteFile(w, f, samples) ==
  IF WavWriteRejected(w) THEN f
  ELSE [f EXCEPT !.data = WriteAt(@, w.pos, samples)]

\* audio.ts:33-39: the synchronous part of close()
WavCloseBegin(w) ==
  IF w.closed THEN w ELSE [w EXCEPT !.closed = TRUE, !.phase = "ending"]

\* audio.ts:40-48: the stream has finished; the header is rewritten in place
\* (ok), or open / write on the handle fails and close() rejects
WavCloseSettleWriter(w, ok) ==
  [w EXCEPT !.phase = IF ok THEN "done" ELSE "failed", !.hdrRewritten = ok]
WavCloseSettleFile(w, f, ok) ==
  IF ok THEN [f EXCEPT !.hdr = CreateWaveHeader(w.format, w.bytesWritten)] ELSE f

(***************************************************************************)
(* Participant labels (session.ts:615-649).                                *)
(***************************************************************************)
\* a participant id with a trailing device number; both ids end in the same one
ParticipantIds == {<<"a", "1">>, <<"b", "1">>}
\* the name a UsersUpdate gives a participant
NameInputs == {<<"A", "n", " ", "B">>}
RandDigits == 100..(100 + NumRand - 1)

NoInfo == [known |-> FALSE, fullName |-> <<>>, displayName |-> <<>>]

\* session.ts:623-630 (the names of the model hold no combining marks and
\* are shorter than 48 characters)
NormalizeParticipantName(value) ==
  LET kept == FilterAlnum(value)
      normalized == [i \in 1..Len(kept) |-> ToLower(kept[i])]
  IN  IF Len(normalized) > 0 THEN SubSeq(normalized, 1, Min(48, Len(normalized)))
      ELSE StrParticipant

\* session.ts:632-642.  /(\d+)(?!.*\d)/ matches the last maximal run of
\* digits of the id, wherever it stands
ExtractDeviceSuffix(participantId) ==
  LET digitAt == {i \in 1..Len(participantId) : participantId[i] \in Digits}
  IN  IF digitAt # {}
      THEN LET last == CHOOSE i \in digitAt : \A j \in digitAt : j <= i
               first == CHOOSE i \in digitAt :
                          /\ \A j \in i..last : j \in digitAt
                          /\ (i = 1 \/ (i - 1) \notin digitAt)
           IN  SubSeq(participantId, first, last)
      ELSE StrId

\* session.ts:615-621, randomPart the outcome of generateRandomDigits(3)
BuildParticipantLabel(participantId, info, randomPart) ==
  LET nameSource == IF info.fullName # <<>> THEN info.fullName
                    ELSE IF info.displayName # <<>> THEN info.displayName
                    ELSE StrParticipant
  IN  NormalizeParticipantName(nameSource) \o <<"_">>
        \o ExtractDeviceSuffix(participantId) \o <<"_">> \o ThreeDigits(randomPart)

\* paths relative to the session directory
MixedPath == <<"mixed_audio.wav">>
ParticipantPath(label) == <<"participants/">> \o label \o <<"/combined_">> \o label \o <<".wav">>

(***************************************************************************)
(* State.                                                                  *)
(*   config    RecorderConfig: the two audio feature flags, and whether    *)
(*             the environment holds a Deepgram key                        *)
(*   session   the fields of the Session object                            *)
(*   socket    the WebSocket: its readyState                               *)
(*   fin       the finalize task started by close(): its position, the     *)
(*             reason and error captured by the closure, the destination   *)
(*             index probed by archiveSession, the file list it read       *)
(*   disk      recordingsRoot: the live session directory and the          *)
(*             directories completed/<base>, <base>_01, ... by index       *)
(*   pipeline  the post-archive task                                       *)
(*   faultsLeft  how many more I/O operations may fail                     *)
(*   obs       history kept for the properties, never read by an action    *)
(*   now       process.hrtime, the monotonic clock, in milliseconds        *)
(*   wav, wavFile, wavOps  a WavWriter on its own and its file (SpecWav)   *)
(*   dg        the post-archive pipeline of DeepgramService on one archive *)
(*   server    the WebSocket server and the process (index.ts)             *)
(*   arch      the archive steps of two sessions on one completed/ root    *)
(*   inbound   history: the messages of fewer than 4 bytes handed to an    *)
(*             open session (ShortSpec)                                    *)
(*   calc      one call of a function of the sources on its own: its name, *)
(*             argument and result (CalcSpec)                              *)
(***************************************************************************)
VARIABLES config, session, socket, fin, disk, pipeline, faultsLeft, obs, now,
          wav, wavFile, wavOps, dg, server, arch, inbound, calc

vars == <<config, session, socket, fin, disk, pipeline, faultsLeft, obs, now,
          wav, wavFile, wavOps, dg, server, arch, inbound, calc>>
sessionVars == <<config, session, socket, fin, disk, pipeline, faultsLeft, obs, now>>
wavVars == <<wav, wavFile, wavOps>>
auxVars == <<dg, server, arch, inbound, calc>>

\* session.ts:61-68
ZeroStats == [jsonMessages |-> 0, mixedAudioFrames |-> 0, participantAudioFrames |-> 0,
              videoFrames |-> 0, encodedVideoChunks |-> 0, unknownFrames |-> 0]
StatsSum(st) == st.jsonMessages + st.mixedAudioFrames + st.participantAudioFrames
                  + st.videoFrames + st.encodedVideoChunks + st.unknownFrames

\* session.ts:49-53
NoWriterState == [label |-> <<>>, writer |-> NoWriter, files |-> <<>>]

NoUrl == "none"
Urls == {"https://meet.example/xyz"}

\* session.ts:100-107, the fields the model follows; archiveIndex -1 is no
\* archivePath / manifestPath
InitMetadata == [meetingUrl |-> NoUrl, audioFormat |-> NoFormat,
                 audioFiles |-> [mixed |-> <<>>, participants |-> <<>>],
                 participants |-> {}, archiveIndex |-> -1]

\* session.ts:84 and 411-414: the pending setTimeout with the time it is due,
\* or no timer
NoTimer == [set |-> FALSE, deadline |-> 0]
Timer(deadline) == [set |-> TRUE, deadline |-> deadline]

\* session.ts:56-85 and 116: the object after the constructor, built at time 0
InitSession ==
  [closed |-> FALSE,
   stats |-> ZeroStats,
   meetingUrl |-> NoUrl,
   audioFormat |-> NoFormat,
   metadata |-> InitMetadata,
   participantInfo |-> [p \in ParticipantIds |-> NoInfo],
   participantWriters |-> [p \in ParticipantIds |-> NoWriterState],
   participantLabels |-> [p \in ParticipantIds |-> <<>>],
   audioFiles |-> [mixed |-> <<>>, participants |-> <<>>],
   mixedAudioWriter |-> NoWriter,
   pendingMixedAudio |-> <<>>,
   pendingParticipantAudio |-> <<>>,
   startHr |-> 0,
   lastMessageHr |-> 0,
   inactivityTimer |-> Timer(InactivityTimeoutMs)]

\* files of a session directory
NoSummary == [exists |-> FALSE, reason |-> "none", durationMs |-> 0, idleMsBeforeClose |-> 0,
              error |-> FALSE, stats |-> ZeroStats, metadata |-> InitMetadata]
NoManifest == [exists |-> FALSE, meetingUrl |-> NoUrl, files |-> <<>>]
NoDir == [exists |-> FALSE, owner |-> "none", telemetry |-> 0, summary |-> NoSummary,
          manifest |-> NoManifest, wavs |-> <<>>]
\* session.ts:93-98: the live directory with an empty telemetry.ndjson
NewLiveDir == [NoDir EXCEPT !.exists = TRUE, !.owner = "self"]
\* a completed directory of another meeting
ForeignDir == [NoDir EXCEPT !.exists = TRUE, !.owner = "other"]

\* the candidates <base>, <base>_01, ... that a run can reach
ArchiveIndexes == 0..MaxExisting

(***************************************************************************)
(* Frame handling.  A handler works on a context [s, wavs, threw]: the     *)
(* session object, the PCM files of the live directory, and whether an     *)
(* exception is propagating.  Once threw is set the remaining statements   *)
(* are skipped; what was assigned before the throw stays.  The WavWriter   *)
(* constructor (mkdirSync, createWriteStream) is taken to succeed.         *)
(***************************************************************************)
Ctx(s, wavs) == [s |-> s, wavs |-> wavs, threw |-> FALSE]

\* an ensureMixedAudioWriter that does not enter the file in audioFiles
EnsureMixedAudioWriterUnlisted(c, format) ==
  IF c.threw \/ c.s.mixedAudioWriter.phase # "absent" THEN c
  ELSE [c EXCEPT !.s.mixedAudioWriter = WavNewWriter(format),
                 !.wavs = (MixedPath :> WavNewFile(format)) @@ @]

\* session.ts:363-376
EnsureMixedAudioWriter(c, format) ==
  IF c.threw \/ c.s.mixedAudioWriter.phase # "absent" THEN c
  ELSE [c EXCEPT !.s.mixedAudioWriter = WavNewWriter(format),
                 !.wavs = (MixedPath :> WavNewFile(format)) @@ @,
                 !.s.audioFiles.mixed =
                    IF MixedPath \in Range(@) THEN @ ELSE Append(@, MixedPath)]

\* an ensureParticipantWriter that looks up neither the writer nor the label
\* it already has
EnsureParticipantWriterAnew(c, participantId, format, randomPart) ==
  IF c.threw THEN c
  ELSE LET label == BuildParticipantLabel(participantId, c.s.participantInfo[participantId],
                                          randomPart)
           filePath == ParticipantPath(label)
       IN  [c EXCEPT
                   !.s.participantLabels[participantId] = label,
                   !.s.participantWriters[participantId] =
                      [label |-> label, writer |-> WavNewWriter(format),
                       files |-> <<filePath>>],
                   !.wavs = (filePath :> WavNewFile(format)) @@ @,
                   !.s.audioFiles.participants = (label :> <<filePath>>) @@ @]

\* session.ts:378-404
EnsureParticipantWriter(c, participantId, format, randomPart) ==
  IF c.threw \/ c.s.participantWriters[participantId].writer.phase # "absent" THEN c
  ELSE LET info == c.s.participantInfo[participantId]
           cached == c.s.participantLabels[participantId]
           label == IF cached # <<>> THEN cached
                    ELSE BuildParticipantLabel(participantId, info, randomPart)
           filePath == ParticipantPath(label)
           c1 == [c EXCEPT !.s.participantLabels[participantId] = label]
       IN  [c1 EXCEPT
                   !.s.participantWriters[participantId] =
                      [label |-> label, writer |-> WavNewWriter(format),
                       files |-> <<filePath>>],
                   !.wavs = (filePath :> WavNewFile(format)) @@ @,
                   !.s.audioFiles.participants = (label :> <<filePath>>) @@ @]

\* writer.write(convertFloat32ToInt16(chunk)) on the mixed writer
WriteMixedChunk(c, chunk) ==
  IF c.threw THEN c
  ELSE IF ConvertThrows(chunk) THEN [c EXCEPT !.threw = TRUE]
  ELSE LET w == c.s.mixedAudioWriter
           pcm == ConvertFloat32ToInt16(chunk)
       IN  [c EXCEPT !.s.mixedAudioWriter = WavWriteWriter(w, pcm),
                     !.wavs[MixedPath] = WavWriteFile(w, @, pcm)]

\* writerState.writer.write(convertFloat32ToInt16(chunk))
WriteParticipantChunk(c, participantId, chunk) ==
  IF c.threw THEN c
  ELSE IF ConvertThrows(chunk) THEN [c EXCEPT !.threw = TRUE]
  ELSE LET state == c.s.participantWriters[participantId]
           pcm == ConvertFloat32ToInt16(chunk)
       IN  [c EXCEPT !.s.participantWriters[participantId].writer =
                        WavWriteWriter(state.writer, pcm),
                     !.wavs[state.files[1]] = WavWriteFile(state.writer, @, pcm)]

\* session.ts:246-248
RECURSIVE FlushMixedChunks(_, _)
FlushMixedChunks(c, chunks) ==
  IF chunks = <<>> \/ c.threw THEN c
  ELSE FlushMixedChunks(WriteMixedChunk(c, Head(chunks)), Tail(chunks))

\* session.ts:262-264
RECURSIVE FlushParticipantChunks(_, _, _)
FlushParticipantChunks(c, participantId, chunks) ==
  IF chunks = <<>> \/ c.threw THEN c
  ELSE FlushParticipantChunks(WriteParticipantChunk(c, participantId, Head(chunks)),
                              participantId, Tail(chunks))

\* session.ts:254-265, the entries of the Map in insertion order
RECURSIVE FlushParticipantQueues(_, _, _, _)
FlushParticipantQueues(c, entries, format, rnd) ==
  IF entries = <<>> \/ c.threw THEN c
  ELSE LET e == Head(entries)
           c1 == IF e.buffers = <<>> THEN c
                 ELSE FlushParticipantChunks(
                        EnsureParticipantWriter(c, e.id, format, rnd[e.id]),
                        e.id, e.buffers)
       IN  FlushParticipantQueues(c1, Tail(entries), format, rnd)

\* session.ts:242-251, the mixed half
FlushPendingMixed(c, format) ==
  IF c.s.pendingMixedAudio # <<>> /\ config.enableMixedAudio
  THEN LET c1 == FlushMixedChunks(EnsureMixedAudioWriter(c, format),
                                  c.s.pendingMixedAudio)
       IN  IF c1.threw THEN c1 ELSE [c1 EXCEPT !.s.pendingMixedAudio = <<>>]
  ELSE c

\* session.ts:253-267, the participant half
FlushPendingParticipants(c, format, rnd) ==
  IF c.threw THEN c
  ELSE IF c.s.pendingParticipantAudio # <<>> /\ config.enablePerParticipantAudio
  THEN LET c1 == FlushParticipantQueues(c, c.s.pendingParticipantAudio, format, rnd)
       IN  IF c1.threw THEN c1 ELSE [c1 EXCEPT !.s.pendingParticipantAudio = <<>>]
  ELSE c

\* session.ts:242-268
FlushPendingAudio(c, format, rnd) ==
  FlushPendingParticipants(FlushPendingMixed(c, format), format, rnd)

\* an AudioFormatUpdate event's format object as parsed from JSON: hasRate is
\* typeof format.sampleRate === 'number', hasChannels is numberOfChannels
\* being neither undefined nor null
FormatInputs ==
  {[hasRate |-> TRUE, sampleRate |-> 16000, hasChannels |-> FALSE, numberOfChannels |-> 0],
   [hasRate |-> TRUE, sampleRate |-> 48000, hasChannels |-> TRUE, numberOfChannels |-> 2],
   [hasRate |-> TRUE, sampleRate |-> 0, hasChannels |-> FALSE, numberOfChannels |-> 0],
   [hasRate |-> FALSE, sampleRate |-> 0, hasChannels |-> FALSE, numberOfChannels |-> 0]}

\* the sampleRate is a positive number
PositiveRate(format) == format.hasRate /\ format.sampleRate > 0

\* session.ts:225-240
HandleAudioFormatUpdate(c, format, rnd) ==
  IF ~format.hasRate THEN c
  ELSE LET normalised == Format(format.sampleRate,
                                IF format.hasChannels THEN format.numberOfChannels ELSE 1)
           c1 == [c EXCEPT !.s.audioFormat = normalised,
                           !.s.metadata.audioFormat = normalised]
       IN  FlushPendingAudio(c1, normalised, rnd)

\* a handler that does not wait for the format
HandleMixedAudioUnbuffered(c, payload) ==
  IF ~config.enableMixedAudio THEN c
  ELSE IF PayloadBytes(payload) = 0 THEN c
  ELSE WriteMixedChunk(EnsureMixedAudioWriter(c, Format(DefaultSampleRate, 1)), payload)

\* session.ts:295-318
HandleMixedAudio(c, payload) ==
  IF ~config.enableMixedAudio THEN c
  ELSE IF PayloadBytes(payload) = 0 THEN c
  ELSE IF ~c.s.audioFormat.set
  THEN [c EXCEPT !.s.pendingMixedAudio = Append(@, payload)]
  ELSE WriteMixedChunk(EnsureMixedAudioWriter(c, c.s.audioFormat), payload)

\* pendingParticipantAudio.get(id) ?? [] ... set(id, queue): a Map keeps the
\* position of a key it already holds
EnqueueParticipant(entries, participantId, audioData) ==
  IF \E i \in 1..Len(entries) : entries[i].id = participantId
  THEN [i \in 1..Len(entries) |->
          IF entries[i].id = participantId
          THEN [entries[i] EXCEPT !.buffers = Append(@, audioData)]
          ELSE entries[i]]
  ELSE Append(entries, [id |-> participantId, buffers |-> <<audioData>>])

\* the payload of a ParticipantAudio frame: envelope "none" is an empty
\* payload, "short" one that ends inside the id, "ok" an id and audio bytes
ParticipantFrames ==
  {[envelope |-> "ok", id |-> p, audio |-> a] : p \in ParticipantIds, a \in ParticipantPayloads}
    \cup {[envelope |-> e, id |-> <<>>, audio |-> PayloadEmpty] : e \in {"none", "short"}}

\* a handleParticipantAudio that takes the empty participant id for no id
HandleParticipantAudioSkipsEmptyId(c, frame, randomPart) ==
  IF ~config.enablePerParticipantAudio THEN c
  ELSE IF frame.envelope # "ok" \/ frame.id = <<>> THEN c
  ELSE IF PayloadBytes(frame.audio) = 0 THEN c
  ELSE IF ~c.s.audioFormat.set
  THEN [c EXCEPT !.s.pendingParticipantAudio = EnqueueParticipant(@, frame.id, frame.audio)]
  ELSE WriteParticipantChunk(
         EnsureParticipantWriter(c, frame.id, c.s.audioFormat, randomPart),
         frame.id, frame.audio)

\* session.ts:320-361
HandleParticipantAudio(c, frame, randomPart) ==
  IF ~config.enablePerParticipantAudio THEN c
  ELSE IF frame.envelope # "ok" THEN c
  ELSE IF PayloadBytes(frame.audio) = 0 THEN c
  ELSE IF ~c.s.audioFormat.set
  THEN [c EXCEPT !.s.pendingParticipantAudio = EnqueueParticipant(@, frame.id, frame.audio)]
  ELSE WriteParticipantChunk(
         EnsureParticipantWriter(c, frame.id, c.s.audioFormat, randomPart),
         frame.id, frame.audio)

\* a UsersUpdate event: each list holds objects with a string deviceId and a
\* string fullName
UsersUpdateEvents ==
  {[newUsers |-> n, updatedUsers |-> u, removedUsers |-> r] :
     <<n, u, r>> \in
       UNION {{<<(<<cand>>), <<>>, <<>>>>, <<(<<>>), <<cand>>, <<>>>>, <<(<<>>), <<>>, <<cand>>>>} :
                cand \in [deviceId : ParticipantIds, fullName : NameInputs]}}

\* session.ts:277-292
RECURSIVE UpsertParticipants(_, _)
UpsertParticipants(c, candidates) ==
  IF candidates = <<>> THEN c
  ELSE UpsertParticipants(
         [c EXCEPT !.s.participantInfo[Head(candidates).deviceId] =
                     [known |-> TRUE, fullName |-> Head(candidates).fullName,
                      displayName |-> <<>>]],
         Tail(candidates))

\* session.ts:271-293: removedUsers is not read
HandleUsersUpdate(c, event) == UpsertParticipants(c, event.newUsers \o event.updatedUsers)

\* session.ts:217-222
AdoptMeetingUrl(c, eventUrl) ==
  IF ~c.threw /\ c.s.meetingUrl = NoUrl /\ eventUrl # NoUrl
  THEN [c EXCEPT !.s.meetingUrl = eventUrl] ELSE c

\* session.ts:196-203 (botName is not followed)
HandleSessionStarted(c, eventUrl) ==
  IF eventUrl # NoUrl THEN [c EXCEPT !.s.meetingUrl = eventUrl] ELSE c

BumpStat(c, counter) == [c EXCEPT !.s.stats[counter] = @ + 1]

\* session.ts:132-137: the catch of handleMessage
CatchDispatch(c) ==
  IF c.threw THEN [BumpStat(c, "unknownFrames") EXCEPT !.threw = FALSE] ELSE c

\* session.ts:183-188: the catch of handleJson only logs
CatchJson(c) == [c EXCEPT !.threw = FALSE]

(***************************************************************************)
(* Initial state.                                                          *)
(***************************************************************************)
InitFin == [pc |-> "open", reason |-> "none", error |-> FALSE, durationMs |-> 0, idleMs |-> 0,
            dest |-> 0, listing |-> <<>>, slugUrl |-> NoUrl]

\* delivered / accepted: frames of at least one byte handed to an open
\* session, and those of them whose 4-byte header could be read;
\* otherFrames: the frames counted against MaxOtherFrames;
\* formats: the AudioFormatUpdate events that carried a sampleRate;
\* closeCalls, firstReason: the calls of close() and the reason of the first;
\* writerCloseRuns, summaryWrites, archiveRuns: the runs of closeAudioWriters,
\* of the summary write and of archiveSession; moveFailed: the rename of the
\* live directory was tried and failed;
\* lastFrameAt: the time of the last message of at least one byte;
\* audioSeen: the streams (MixedStream, or a participant id) whose feature
\* is on and for which a payload with audio bytes has been received;
\* participantData: for each participant whose feature is on, the conversions
\* of the audio of its ParticipantAudio frames, in arrival order;
\* mixedData: the conversions of the non-empty MixedAudio payloads, in
\* arrival order; formatFirst: the same MixedAudio frames handled by a
\* session that knew its format from the start
InitObs ==
  [delivered |-> 0, accepted |-> 0, otherFrames |-> 0,
   closeCalls |-> 0, firstReason |-> "none",
   formats |-> 0, faults |-> 0,
   mixedData |-> <<>>,
   formatFirst |-> Ctx([InitSession EXCEPT !.audioFormat = Format(DefaultSampleRate, 1)], <<>>),
   writerCloseRuns |-> 0, summaryWrites |-> 0, archiveRuns |-> 0,
   moveFailed |-> FALSE, lastFrameAt |-> 0, audioSeen |-> {},
   participantData |-> [p \in ParticipantIds |-> <<>>]]

\* no pipeline run is followed
NoDg == [pc |-> "off"]

\* index.ts:34: the server listens, the process runs
InitServer == [wss |-> "listening", via |-> "none", openAtShutdown |-> FALSE,
               exited |-> FALSE]

\* no second session is followed
NoArch == [pc |-> "off"]

\* no function is called on its own
NoCalc == [fn |-> "none"]

\* the components the session's own runs do not follow stay as they start
InitAux ==
  /\ dg = NoDg
  /\ server = InitServer
  /\ arch = NoArch
  /\ inbound = 0
  /\ calc = NoCalc

InitWav ==
  /\ wav = NoWriter
  /\ wavFile = NoFile
  /\ wavOps = 0
  /\ InitAux

InitSessionVars ==
  /\ config \in [enableMixedAudio : BOOLEAN, enablePerParticipantAudio : BOOLEAN,
                 deepgramApiKey : {TRUE}]
  /\ session = InitSession
  /\ socket = [readyState |-> "open"]
  /\ fin = InitFin
  /\ disk = [live |-> NewLiveDir, completed |-> [i \in ArchiveIndexes |-> NoDir]]
  /\ pipeline = "idle"
  /\ obs = InitObs
  /\ now = 0

Init ==
  /\ InitSessionVars
  /\ faultsLeft = MaxFaults
  /\ InitWav

\* the same start with an environment in which no I/O operation fails
InitNoFault ==
  /\ InitSessionVars
  /\ faultsLeft = 0
  /\ InitWav

\* whether an I/O operation may fail now
IoOutcomes == IF faultsLeft > 0 THEN {TRUE, FALSE} ELSE {TRUE}
Spend(failed) == faultsLeft' = IF failed THEN faultsLeft - 1 ELSE faultsLeft

(***************************************************************************)
(* close(reason, error), session.ts:424-501, up to telemetryStream.end.    *)
(***************************************************************************)
\* a close() that leaves the pending timer as it is
CloseSessionKeepsTimer(s) ==
  [s EXCEPT !.closed = TRUE,
            !.metadata = [@ EXCEPT
               !.meetingUrl = IF s.meetingUrl # NoUrl THEN s.meetingUrl ELSE @,
               !.audioFormat = IF s.audioFormat.set THEN s.audioFormat ELSE @,
               !.audioFiles = s.audioFiles,
               !.participants = {s.participantInfo[p] : p \in
                                   {q \in ParticipantIds : s.participantInfo[q].known}}]]

\* session.ts:428-449
CloseSession(s) ==
  [s EXCEPT !.closed = TRUE,
            !.inactivityTimer = NoTimer,
            !.metadata = [@ EXCEPT
               !.meetingUrl = IF s.meetingUrl # NoUrl THEN s.meetingUrl ELSE @,
               !.audioFormat = IF s.audioFormat.set THEN s.audioFormat ELSE @,
               !.audioFiles = s.audioFiles,
               !.participants = {s.participantInfo[p] : p \in
                                   {q \in ParticipantIds : s.participantInfo[q].known}}]]

\* session.ts:436-440
CloseSocket(sock) ==
  IF sock.readyState = "open" THEN [sock EXCEPT !.readyState = "closing"] ELSE sock

\* session.ts:442-443 and 451-500: the closure finalize captures reason,
\* error, durationMs and idleMs; hr is process.hrtime at the call
StartFinalize(s, reason, error, hr) ==
  [pc |-> "telemetry_ending", reason |-> reason, error |-> error,
   durationMs |-> hr - s.startHr, idleMs |-> hr - s.lastMessageHr,
   dest |-> 0, listing |-> <<>>, slugUrl |-> NoUrl]

ObsClose(o, s, reason) ==
  [o EXCEPT !.closeCalls = @ + 1,
            !.firstReason = IF s.closed THEN @ ELSE reason]

\* a close() without its guard on closed
CloseUnguarded(s, sock, f, reason, error, hr) ==
  [s |-> CloseSession(s), sock |-> CloseSocket(sock), f |-> StartFinalize(s, reason, error, hr)]

\* the whole call, made at time hr, on session s with the socket in state
\* sock: the new session, socket and finalize task
Close(s, sock, f, reason, error, hr) ==
  IF s.closed THEN [s |-> s, sock |-> sock, f |-> f]
  ELSE [s |-> CloseSession(s), sock |-> CloseSocket(sock),
        f |-> StartFinalize(s, reason, error, hr)]

(***************************************************************************)
(* handleMessage, session.ts:119-138, one action per kind of frame.        *)
(***************************************************************************)
\* the socket still delivers messages; the model follows MaxFrames frames of
\* an open session
CanDeliver ==
  /\ socket.readyState # "closed"
  /\ session.closed \/ obs.delivered < MaxFrames
CanDeliverOther == CanDeliver /\ (session.closed \/ obs.otherFrames < MaxOtherFrames)

\* a handleMessage that leaves the pending timer as it is
KeepInactivityTimer(s) == s

\* session.ts:406-415: the pending timer is cleared and a new one is set,
\* due one window from now
ResetInactivityTimer(s) == [s EXCEPT !.inactivityTimer = Timer(now + InactivityTimeoutMs)]

\* session.ts:129-130
TouchSession(s) == ResetInactivityTimer([s EXCEPT !.lastMessageHr = now])

\* the context dispatch starts from
Entry == Ctx(TouchSession(session), disk.live.wavs)

Delivered(o, headerRead) ==
  [o EXCEPT !.delivered = @ + 1, !.accepted = @ + IF headerRead THEN 1 ELSE 0,
            !.lastFrameAt = now]
DeliveredOther(o, headerRead) == [Delivered(o, headerRead) EXCEPT !.otherFrames = @ + 1]

\* what a frame that was dispatched without closing the session leaves
Commit(c, telemetryLines, o) ==
  /\ session' = c.s
  /\ disk' = [disk EXCEPT !.live.wavs = c.wavs, !.live.telemetry = @ + telemetryLines]
  /\ obs' = o
  /\ UNCHANGED <<config, socket, fin, pipeline, faultsLeft, now, wavVars, auxVars>>

\* session.ts:120-122: a closed session returns at once
Ignored == UNCHANGED vars

\* session.ts:125-127: a message of no bytes returns before anything else
RecvEmpty ==
  /\ CanDeliver
  /\ UNCHANGED vars

\* session.ts:141-143: 1 to 3 bytes, dispatch throws
RecvShort ==
  /\ CanDeliverOther
  /\ IF session.closed THEN Ignored
     ELSE Commit(CatchDispatch([Entry EXCEPT !.threw = TRUE]), 0, DeliveredOther(obs, FALSE))

\* session.ts:171-175
RecvUnknownType ==
  /\ CanDeliverOther
  /\ IF session.closed THEN Ignored
     ELSE Commit(CatchDispatch(BumpStat(Entry, "unknownFrames")), 0, DeliveredOther(obs, TRUE))

\* session.ts:153-156
RecvVideo ==
  /\ CanDeliverOther
  /\ IF session.closed THEN Ignored
     ELSE Commit(CatchDispatch(BumpStat(Entry, "videoFrames")), 0, DeliveredOther(obs, TRUE))

\* session.ts:162-165
RecvEncodedVideo ==
  /\ CanDeliverOther
  /\ IF session.closed THEN Ignored
     ELSE Commit(CatchDispatch(BumpStat(Entry, "encodedVideoChunks")), 0,
                 DeliveredOther(obs, TRUE))

\* the name the history gives the mixed stream, next to the participant ids
MixedStream == <<"mixed">>

\* the history of the MixedAudio frames: the conversions of the non-empty
\* payloads, and the same frame handled by the session that had its format
\* from the start
ObsMixed(o, payload) ==
  IF config.enableMixedAudio /\ PayloadBytes(payload) > 0
  THEN [o EXCEPT !.formatFirst = CatchDispatch(HandleMixedAudio(@, payload)),
                 !.mixedData = @ \o ConvertFloat32ToInt16(payload),
                 !.audioSeen = @ \cup {MixedStream}]
  ELSE o

\* the history of the ParticipantAudio frames
ObsParticipant(o, frame) ==
  IF config.enablePerParticipantAudio /\ frame.envelope = "ok" /\ PayloadBytes(frame.audio) > 0
  THEN [o EXCEPT !.audioSeen = @ \cup {frame.id},
                 !.participantData[frame.id] = @ \o ConvertFloat32ToInt16(frame.audio)]
  ELSE o

\* the outcomes of generateRandomDigits, where the frame builds a label
RandOutcomes(builds) == IF builds THEN RandDigits ELSE {100}

\* session.ts:157-161
RecvMixedAudio ==
  /\ CanDeliver
  /\ IF session.closed THEN Ignored
     ELSE \E payload \in AudioPayloads :
            Commit(CatchDispatch(
                     HandleMixedAudio(BumpStat(Entry, "mixedAudioFrames"), payload)),
                   0, Delivered(ObsMixed(obs, payload), TRUE))

\* whether handling the frame calls the WavWriter constructor
CreatesParticipantWriter(frame) ==
  /\ config.enablePerParticipantAudio
  /\ session.audioFormat.set
  /\ frame.envelope = "ok"
  /\ PayloadBytes(frame.audio) > 0
  /\ session.participantWriters[frame.id].writer.phase = "absent"

\* session.ts:166-170
RecvParticipantAudio ==
  /\ CanDeliver
  /\ IF session.closed THEN Ignored
     ELSE \E frame \in ParticipantFrames :
          \E randomPart \in RandOutcomes(CreatesParticipantWriter(frame)
                                           /\ session.participantLabels[frame.id] = <<>>) :
            Commit(CatchDispatch(
                     HandleParticipantAudio(BumpStat(Entry, "participantAudioFrames"),
                                            frame, randomPart)),
                   0, Delivered(ObsParticipant(obs, frame), TRUE))

\* session.ts:179-180: handleJson counts the message
JsonEntry == BumpStat(Entry, "jsonMessages")

\* the text of an event the model follows by its fields: JSON on one line
OneLineJson == <<"{", "}">>

\* session.ts:181: telemetryStream.write(raw + '\n'), as the number of lines
\* (of line ends) the write adds to telemetry.ndjson
RECURSIVE CountNewlines(_)
CountNewlines(text) ==
  IF text = <<>> THEN 0
  ELSE (IF Head(text) = "\n" THEN 1 ELSE 0) + CountNewlines(Tail(text))
TelemetryLines(raw) == CountNewlines(raw \o <<"\n">>)

\* the participants whose queued audio a flush would write
QueuedParticipants ==
  IF config.enablePerParticipantAudio
  THEN {session.pendingParticipantAudio[i].id : i \in DOMAIN session.pendingParticipantAudio}
  ELSE {}

\* session.ts:148-151, 179-189 and 205-207: an AudioFormatUpdate event
RecvJsonAudioFormat ==
  /\ CanDeliver
  /\ IF session.closed THEN Ignored
     ELSE \E format \in FormatInputs :
          \E rnd \in [ParticipantIds -> RandDigits] :
            /\ PositiveRate(format) \/ CanDeliverOther
            /\ \A p \in ParticipantIds \ (IF format.hasRate THEN QueuedParticipants ELSE {}) :
                 rnd[p] = 100
            /\ LET o == [obs EXCEPT !.formats = @ + IF format.hasRate THEN 1 ELSE 0]
               IN  Commit(CatchJson(AdoptMeetingUrl(
                            HandleAudioFormatUpdate(JsonEntry, format, rnd), NoUrl)),
                          TelemetryLines(OneLineJson),
                          IF PositiveRate(format) THEN Delivered(o, TRUE)
                             ELSE DeliveredOther(o, TRUE))

\* session.ts:209-211: a UsersUpdate event naming one participant
RecvJsonUsersUpdate ==
  /\ CanDeliverOther
  /\ IF session.closed THEN Ignored
     ELSE \E event \in UsersUpdateEvents :
            Commit(CatchJson(AdoptMeetingUrl(HandleUsersUpdate(JsonEntry, event), NoUrl)),
                   TelemetryLines(OneLineJson), DeliveredOther(obs, TRUE))

\* session.ts:196-203: a SessionStarted event
RecvJsonSessionStarted ==
  /\ CanDeliverOther
  /\ IF session.closed THEN Ignored
     ELSE \E eventUrl \in Urls \cup {NoUrl} :
            Commit(CatchJson(AdoptMeetingUrl(HandleSessionStarted(JsonEntry, eventUrl),
                                             eventUrl)),
                   TelemetryLines(OneLineJson), DeliveredOther(obs, TRUE))

\* the text of a Json frame that is no event the session acts on: an event
\* of another type on one line, the same event printed on two lines, text
\* that JSON.parse rejects, and no text at all
OtherJsonPayloads ==
  {<<"{", "\"type\":\"Chat\"", "}">>, <<"{", "\n", "\"type\":\"Chat\"", "}">>, <<"{">>, <<>>}

\* session.ts:183-188: an event of another type, or text JSON.parse rejects
RecvJsonOther ==
  /\ CanDeliverOther
  /\ IF session.closed THEN Ignored
     ELSE \E raw \in OtherJsonPayloads :
            Commit(CatchJson(JsonEntry), TelemetryLines(raw), DeliveredOther(obs, TRUE))

\* the values of change the model sends: the one the handler acts on and one
\* it does not
MeetingStatusChanges == {"removed_from_meeting", "joined"}

\* a handler that closes on no change at all
HandleMeetingStatusChangeKeepOpen(s, sock, f, change) == [s |-> s, sock |-> sock, f |-> f]

\* session.ts:417-422: close('removed_from_meeting') on that change only
HandleMeetingStatusChange(s, sock, f, change) ==
  IF change = "removed_from_meeting"
  THEN Close(s, sock, f, "removed_from_meeting", FALSE, now)
  ELSE [s |-> s, sock |-> sock, f |-> f]

\* session.ts:179-181, 213-222: the event is counted and written, the handler
\* runs (close() inside it), then the meetingUrl fallback of applyMetadata
StatusChangeWith(change, eventUrl) ==
  LET r == HandleMeetingStatusChange(JsonEntry.s, socket, fin, change)
      c == AdoptMeetingUrl([JsonEntry EXCEPT !.s = r.s], eventUrl)
      o == DeliveredOther(obs, TRUE)
  IN  /\ session' = c.s
      /\ socket' = r.sock
      /\ fin' = r.f
      /\ disk' = [disk EXCEPT !.live.telemetry = @ + TelemetryLines(OneLineJson)]
      /\ obs' = IF r.s.closed THEN ObsClose(o, JsonEntry.s, "removed_from_meeting") ELSE o
      /\ UNCHANGED <<config, pipeline, faultsLeft, now, wavVars, auxVars>>

\* a MeetingStatusChange event that carries no meetingUrl
StatusChange(change) == StatusChangeWith(change, NoUrl)

\* session.ts:119-122: a MeetingStatusChange event reaches handleMessage
RecvJsonStatusChange ==
  /\ CanDeliverOther
  /\ IF session.closed THEN Ignored
     ELSE \E change \in MeetingStatusChanges : StatusChange(change)

(***************************************************************************)
(* The other callers of close().                                           *)
(***************************************************************************)
\* session.ts:112: the socket's 'close' event
SocketClose ==
  /\ socket.readyState # "closed"
  /\ LET r == Close(session, [socket EXCEPT !.readyState = "closed"], fin,
                    "client_close", FALSE, now)
     IN  /\ session' = r.s
         /\ socket' = r.sock
         /\ fin' = r.f
         /\ obs' = ObsClose(obs, session, "client_close")
  /\ UNCHANGED <<config, disk, pipeline, faultsLeft, now, wavVars, auxVars>>

\* session.ts:113: the 'error' event of a socket that was open; ws emits it
\* with the socket already closing, and the handler is registered with once
SocketError ==
  /\ socket.readyState = "open"
  /\ LET r == Close(session, [socket EXCEPT !.readyState = "closing"],
                    fin, "socket_error", TRUE, now)
     IN  /\ session' = r.s
         /\ socket' = r.sock
         /\ fin' = r.f
         /\ obs' = ObsClose(obs, session, "socket_error")
  /\ UNCHANGED <<config, disk, pipeline, faultsLeft, now, wavVars, auxVars>>

\* session.ts:411-414: the pending timer fires.  The callback runs when the
\* clock has reached the time the timer is due
InactivityTimeout ==
  /\ session.inactivityTimer.set
  /\ now' = Max(now, session.inactivityTimer.deadline)
  /\ LET r == Close([session EXCEPT !.inactivityTimer = NoTimer], socket, fin,
                    "inactivity_timeout", FALSE, now')
     IN  /\ session' = r.s
         /\ socket' = r.sock
         /\ fin' = r.f
         /\ obs' = ObsClose(obs, session, "inactivity_timeout")
  /\ UNCHANGED <<config, disk, pipeline, faultsLeft, wavVars, auxVars>>

\* half a window passes on the clock of an open session.  A pending timer
\* runs when it is due: the clock does not pass its deadline
TickMs == InactivityTimeoutMs \div 2
ClockAdvance ==
  /\ ~session.closed
  /\ now + TickMs <= MaxTicks * TickMs
  /\ session.inactivityTimer.set => now + TickMs <= session.inactivityTimer.deadline
  /\ now' = now + TickMs
  /\ UNCHANGED <<config, session, socket, fin, disk, pipeline, faultsLeft, obs, wavVars, auxVars>>

(***************************************************************************)
(* finalize, session.ts:451-488, and archiveSession, session.ts:503-545:   *)
(* one action per await.                                                   *)
(***************************************************************************)
AllWriters(s) ==
  {w \in {s.mixedAudioWriter} \cup {s.participantWriters[p].writer : p \in ParticipantIds} :
     w.phase # "absent"}

\* a finalize that does not await the closures
WritersSettledAtOnce(s) == TRUE

\* session.ts:566: await Promise.all(closures) has returned
WritersSettled(s) == \A w \in AllWriters(s) : w.phase \in {"done", "failed"}

\* session.ts:547-564: close() is called on every writer
CloseAudioWriters(s) ==
  [s EXCEPT !.mixedAudioWriter = IF @.phase = "absent" THEN @ ELSE WavCloseBegin(@),
            !.participantWriters =
               [p \in ParticipantIds |->
                  IF @[p].writer.phase = "absent" THEN @[p]
                  ELSE [@[p] EXCEPT !.writer = WavCloseBegin(@)]]]

\* session.ts:490-500 and 452: the telemetry stream has ended, finalize starts
TelemetryEnded ==
  /\ fin.pc = "telemetry_ending"
  /\ fin' = [fin EXCEPT !.pc = "closing_writers"]
  /\ session' = CloseAudioWriters(session)
  /\ obs' = [obs EXCEPT !.writerCloseRuns = @ + 1]
  /\ UNCHANGED <<config, socket, disk, pipeline, faultsLeft, now, wavVars, auxVars>>

\* a closure whose close() rejects would, without its .catch, reject
\* Promise.all and with it finalize
AfterWriterCloseRejects(f, ok) == IF ok THEN f ELSE [f EXCEPT !.pc = "aborted"]

\* session.ts:551-553 and 559-561: the .catch of each closure logs, and
\* finalize goes on
AfterWriterClose(f, ok) == f

\* audio.ts:40-48 for the mixed writer
MixedWriterSettled ==
  /\ session.mixedAudioWriter.phase = "ending"
  /\ \E ok \in IoOutcomes :
       /\ session' = [session EXCEPT !.mixedAudioWriter = WavCloseSettleWriter(@, ok)]
       /\ disk' = [disk EXCEPT !.live.wavs[MixedPath] =
                                  WavCloseSettleFile(session.mixedAudioWriter, @, ok)]
       /\ fin' = AfterWriterClose(fin, ok)
       /\ Spend(~ok)
       /\ obs' = [obs EXCEPT !.faults = @ + IF ok THEN 0 ELSE 1]
  /\ UNCHANGED <<config, socket, pipeline, now, wavVars, auxVars>>

\* audio.ts:40-48 for one participant writer
ParticipantWriterSettled ==
  \E p \in ParticipantIds :
    /\ session.participantWriters[p].writer.phase = "ending"
    /\ \E ok \in IoOutcomes :
         /\ session' = [session EXCEPT !.participantWriters[p].writer =
                                          WavCloseSettleWriter(@, ok)]
         /\ disk' = [disk EXCEPT !.live.wavs[session.participantWriters[p].files[1]] =
                        WavCloseSettleFile(session.participantWriters[p].writer, @, ok)]
         /\ fin' = AfterWriterClose(fin, ok)
         /\ Spend(~ok)
         /\ obs' = [obs EXCEPT !.faults = @ + IF ok THEN 0 ELSE 1]
    /\ UNCHANGED <<config, socket, pipeline, now, wavVars, auxVars>>

\* session.ts:454-462
SummaryOf(s, f) ==
  [exists |-> TRUE, reason |-> f.reason, durationMs |-> f.durationMs,
   idleMsBeforeClose |-> f.idleMs, error |-> f.error, stats |-> s.stats,
   metadata |-> s.metadata]

\* session.ts:464-465: a failed write rejects finalize, which is only logged
\* (session.ts:491-493)
AfterSummaryWrite(f, ok) ==
  IF ok THEN [f EXCEPT !.pc = "archive_probe", !.dest = 0] ELSE [f EXCEPT !.pc = "aborted"]

\* session.ts:507: archiveSession reads metaState.meetingUrl for the slug of
\* the folder name before its first await
BuildArchiveFolderName(f, s) ==
  IF f.pc = "archive_probe" THEN [f EXCEPT !.slugUrl = s.meetingUrl] ELSE f

\* session.ts:454-467 and 504-510: the summary is written to the live
\* directory, then archiveSession starts probing <base>
WriteSummary ==
  /\ fin.pc = "closing_writers"
  /\ WritersSettled(session)
  /\ \E ok \in IoOutcomes :
       /\ disk' = IF ok THEN [disk EXCEPT !.live.summary = SummaryOf(session, fin)] ELSE disk
       /\ fin' = BuildArchiveFolderName(AfterSummaryWrite(fin, ok), session)
       /\ Spend(~ok)
       /\ obs' = [obs EXCEPT !.summaryWrites = @ + 1,
                             !.archiveRuns = @ + IF ok THEN 1 ELSE 0,
                             !.faults = @ + IF ok THEN 0 ELSE 1]
  /\ UNCHANGED <<config, session, socket, pipeline, now, wavVars, auxVars>>

\* String(attempt).padStart(2, '0'), session.ts:511
ArchiveSuffix(attempt) ==
  IF attempt < 10 THEN <<"0", DigitChar(attempt)>>
  ELSE IF attempt < 100 THEN <<DigitChar(attempt \div 10), DigitChar(attempt % 10)>>
  ELSE ThreeDigits(attempt)

\* the folder name buildArchiveFolderName returns, session.ts:507
BaseName == <<"meeting_slug_timestamp_id">>

\* session.ts:508-513: the candidate after dest collisions; the loop's
\* attempt counter is the number of collisions so far plus one
Destination(dest) ==
  IF dest = 0 THEN BaseName ELSE BaseName \o <<"_">> \o ArchiveSuffix(dest)

\* a probe that never finds the candidate taken
PathNeverExists(d, dest) == FALSE

\* session.ts:651-658, on the candidate of index dest
PathExists(d, dest) == d.completed[dest].exists

\* session.ts:510-513: one pathExists(destination).  The directories of other
\* meetings are followed from the probe that finds them: up to MaxExisting
\* candidates are held by a meeting archived under the same name
ArchiveProbe ==
  /\ fin.pc = "archive_probe"
  /\ \E taken \in IF fin.dest < MaxExisting THEN BOOLEAN ELSE {FALSE} :
       /\ disk' = IF taken THEN [disk EXCEPT !.completed[fin.dest] = ForeignDir] ELSE disk
       /\ fin' = IF PathExists(disk', fin.dest)
                 THEN [fin EXCEPT !.dest = @ + 1]
                 ELSE [fin EXCEPT !.pc = "archive_rename"]
  /\ UNCHANGED <<config, session, socket, pipeline, faultsLeft, obs, now, wavVars, auxVars>>

\* a move that copies the directory and leaves the original behind
RenameDirCopies(d, dest, ok) ==
  IF ok THEN [d EXCEPT !.completed[dest] = d.live] ELSE d

\* fs.promises.rename of a directory: all of it or nothing
RenameDir(d, dest, ok) ==
  IF ok THEN [d EXCEPT !.completed[dest] = d.live, !.live = NoDir] ELSE d

\* an archiveSession without the try / catch around the rename
AfterRenameGoesOn(f, ok) == [f EXCEPT !.pc = "archive_list"]

\* session.ts:518-521 and 485-487: archiveSession returns null, finalize logs
\* and ends; session.ts:523 otherwise
AfterRename(f, ok) ==
  IF ok THEN [f EXCEPT !.pc = "archive_list"] ELSE [f EXCEPT !.pc = "done"]

\* session.ts:515-521
ArchiveRename ==
  /\ fin.pc = "archive_rename"
  /\ \E ok \in IoOutcomes :
       /\ disk' = RenameDir(disk, fin.dest, ok)
       /\ fin' = AfterRename(fin, ok)
       /\ Spend(~ok)
       /\ obs' = [obs EXCEPT !.faults = @ + IF ok THEN 0 ELSE 1, !.moveFailed = ~ok]
  /\ UNCHANGED <<config, session, socket, pipeline, now, wavVars, auxVars>>

SummaryPath == <<"session-summary.json">>
TelemetryPath == <<"telemetry.ndjson">>
ManifestPath == <<"archive.json">>

\* the size of a JSON file is not followed byte by byte: a summary that
\* records archivePath and manifestPath is longer than one that does not
SummarySize(summary) == IF summary.metadata.archiveIndex >= 0 THEN 2 ELSE 1

\* path.join(config.recordingsRoot, 'completed', name), session.ts:504-512
CompletedPath(name) == <<"recordings/", "completed/">> \o name

\* path.join(current, entry.name) down to a file, session.ts:670
JoinPath(root, name) == root \o <<"/">> \o name

\* path.relative(base, fullPath) of a path under base, session.ts:675; the
\* replace of that line rewrites doubled backslashes only, and the paths of
\* the model hold none
RelativePath(base, fullPath) == SubSeq(fullPath, Len(base) + 2, Len(fullPath))

\* the names of the files under a session directory, one per file
FileNames(dir) ==
  {TelemetryPath}
    \cup (IF dir.summary.exists THEN {SummaryPath} ELSE {})
    \cup (IF dir.manifest.exists THEN {ManifestPath} ELSE {})
    \cup DOMAIN dir.wavs

\* fs.promises.stat(fullPath).size, session.ts:674
StatSize(dir, name) ==
  IF name = TelemetryPath THEN dir.telemetry
  ELSE IF name = SummaryPath THEN SummarySize(dir.summary)
  ELSE IF name = ManifestPath THEN Len(dir.manifest.files)
  ELSE FileSize(dir.wavs[name])

\* a walk that does not descend into participants/
CollectTopLevelFiles(root, dir) ==
  {[path |-> RelativePath(root, JoinPath(root, name)), size |-> StatSize(dir, name)] :
     name \in FileNames(dir) \ {n \in DOMAIN dir.wavs : n # MixedPath}}

\* session.ts:667-678: the walk of the directory at root
CollectRelativeFiles(root, dir) ==
  {[path |-> RelativePath(root, JoinPath(root, name)), size |-> StatSize(dir, name)] :
     name \in FileNames(dir)}

\* a.path.localeCompare(b.path) < 0, session.ts:663.  Paths are compared
\* piece by piece; the pieces stand in collation order: punctuation before
\* digits before letters
CollationOrder ==
  <<"_", ".wav", "/combined_", "0", "1", "2", "3", "4", "5", "6", "7", "8", "9",
    "a", "archive.json", "b", "c", "d", "i", "mixed_audio.wav", "n", "p",
    "participants/", "r", "session-summary.json", "t", "telemetry.ndjson">>
CollationKey(piece) == CHOOSE i \in DOMAIN CollationOrder : CollationOrder[i] = piece

RECURSIVE PathBefore(_, _)
PathBefore(a, b) ==
  IF b = <<>> THEN FALSE
  ELSE IF a = <<>> THEN TRUE
  ELSE IF Head(a) = Head(b) THEN PathBefore(Tail(a), Tail(b))
  ELSE CollationKey(Head(a)) < CollationKey(Head(b))

\* files.sort(...), session.ts:663
RECURSIVE SortByPath(_)
SortByPath(files) ==
  IF files = {} THEN <<>>
  ELSE LET first == CHOOSE f \in files :
                      \A g \in files \ {f} : PathBefore(f.path, g.path) \/ f.path = g.path
       IN  <<first>> \o SortByPath(files \ {first})

\* session.ts:660-665
ListRelativeFiles(root, dir) == SortByPath(CollectRelativeFiles(root, dir))

\* session.ts:523
ArchiveList ==
  /\ fin.pc = "archive_list"
  /\ \E ok \in IoOutcomes :
       /\ fin' = IF ok THEN [fin EXCEPT !.pc = "archive_manifest",
                                        !.listing = ListRelativeFiles(
                                                      CompletedPath(Destination(fin.dest)),
                                                      disk.completed[fin.dest])]
                 ELSE [fin EXCEPT !.pc = "aborted"]
       /\ Spend(~ok)
       /\ obs' = [obs EXCEPT !.faults = @ + IF ok THEN 0 ELSE 1]
  /\ UNCHANGED <<config, session, socket, disk, pipeline, now, wavVars, auxVars>>

\* session.ts:524-531
ManifestOf(s, f) == [exists |-> TRUE, meetingUrl |-> s.meetingUrl, files |-> f.listing]

\* a rejection of processPhoWhisper that ends the finalize task
PipelineFailureRaised(f) == [f EXCEPT !.pc = "aborted"]

\* session.ts:540-542: the rejection of processPhoWhisper is logged by its
\* .catch; the finalize task is as it was
AfterPipelineFailure(f) == f

\* session.ts:569-586 and deepgram-service.ts:18-27, 319-328: the part of
\* processPhoWhisper that runs inside the call.  Without a Deepgram key the
\* constructor throws; with one processMeetingFolder walks the archive
\* directory (findAudioFiles) before its first await
PipelineStart(keyConfigured) == IF keyConfigured THEN "reading" ELSE "failed"

\* session.ts:533-544: archive.json is written, then processPhoWhisper is
\* called and not awaited
ArchiveManifest ==
  /\ fin.pc = "archive_manifest"
  /\ \E ok \in IoOutcomes :
       /\ disk' = IF ok THEN [disk EXCEPT !.completed[fin.dest].manifest = ManifestOf(session, fin)]
                  ELSE disk
       /\ pipeline' = IF ok THEN PipelineStart(config.deepgramApiKey) ELSE pipeline
       /\ fin' = IF ok
                 THEN [(IF config.deepgramApiKey THEN fin ELSE AfterPipelineFailure(fin))
                         EXCEPT !.pc = IF @ = "archive_manifest" THEN "rewrite_summary" ELSE @]
                 ELSE [fin EXCEPT !.pc = "aborted"]
       /\ Spend(~ok)
       /\ obs' = [obs EXCEPT !.faults = @ + IF ok THEN 0 ELSE 1]
  /\ UNCHANGED <<config, session, socket, now, wavVars, auxVars>>

\* session.ts:469-470
RecordArchive(s, dest) == [s EXCEPT !.metadata.archiveIndex = dest]

\* session.ts:468-484
RewriteSummary ==
  /\ fin.pc = "rewrite_summary"
  /\ session' = RecordArchive(session, fin.dest)
  /\ \E ok \in IoOutcomes :
       /\ disk' = IF ok THEN [disk EXCEPT !.completed[fin.dest].summary =
                                             SummaryOf(RecordArchive(session, fin.dest), fin)]
                  ELSE disk
       /\ fin' = [fin EXCEPT !.pc = IF ok THEN "done" ELSE "aborted"]
       /\ Spend(~ok)
       /\ obs' = [obs EXCEPT !.faults = @ + IF ok THEN 0 ELSE 1]
  /\ UNCHANGED <<config, socket, pipeline, now, wavVars, auxVars>>

\* session.ts:586-592 and 540-542: processMeetingFolder settles; it need
\* never do so.  A rejection (deepgram-service.ts:372-375) goes to the .catch
PipelineSettle ==
  /\ pipeline = "reading"
  /\ \E ok \in BOOLEAN :
       /\ pipeline' = IF ok THEN "completed" ELSE "failed"
       /\ fin' = IF ok THEN fin ELSE AfterPipelineFailure(fin)
  /\ UNCHANGED <<config, session, socket, disk, faultsLeft, obs, now, wavVars, auxVars>>

(***************************************************************************)
(* The specifications.                                                     *)
(***************************************************************************)
Receive ==
  \/ RecvEmpty
  \/ RecvShort
  \/ RecvUnknownType
  \/ RecvVideo
  \/ RecvEncodedVideo
  \/ RecvMixedAudio
  \/ RecvParticipantAudio
  \/ RecvJsonAudioFormat
  \/ RecvJsonUsersUpdate
  \/ RecvJsonSessionStarted
  \/ RecvJsonOther
  \/ RecvJsonStatusChange

Finalize ==
  \/ TelemetryEnded
  \/ MixedWriterSettled
  \/ ParticipantWriterSettled
  \/ WriteSummary
  \/ ArchiveProbe
  \/ ArchiveRename
  \/ ArchiveList
  \/ ArchiveManifest
  \/ RewriteSummary

Next ==
  \/ Receive
  \/ SocketClose
  \/ SocketError
  \/ InactivityTimeout
  \/ Finalize

\* every run of the session, with and without I/O failures
Spec == Init /\ [][Next]_vars

\* the event loop runs every callback and continuation that is ready
FairSpec == Init /\ [][Next]_vars /\ WF_vars(Finalize)

\* the runs in which no I/O operation fails
NoFaultSpec == InitNoFault /\ [][Next]_vars /\ WF_vars(Finalize)

\* a session with both audio features on, no I/O failure, and the clock
\* followed while it is open
InitTimed ==
  /\ InitNoFault
  /\ config.enableMixedAudio
  /\ config.enablePerParticipantAudio

NextTimed ==
  \/ ClockAdvance
  \/ Next

\* a session that has handled one AudioFormatUpdate, with both audio
\* features on and no I/O failure; MaxFrames more frames are followed
InitLabels ==
  /\ config = [enableMixedAudio |-> TRUE, enablePerParticipantAudio |-> TRUE,
               deepgramApiKey |-> TRUE]
  /\ session = [InitSession EXCEPT !.audioFormat = Format(16000, 1),
                                   !.metadata.audioFormat = Format(16000, 1),
                                   !.stats.jsonMessages = 1]
  /\ socket = [readyState |-> "open"]
  /\ fin = InitFin
  /\ disk = [live |-> [NewLiveDir EXCEPT !.telemetry = 1],
             completed |-> [i \in ArchiveIndexes |-> NoDir]]
  /\ pipeline = "idle"
  /\ obs = [InitObs EXCEPT !.formats = 1]
  /\ now = 0
  /\ faultsLeft = 0
  /\ InitWav

LabelSpec == InitLabels /\ [][Next]_vars

\* the session after its first frame, an AudioFormatUpdate, with and without
\* a Deepgram key in the environment and no I/O failure
InitPipeline ==
  /\ config \in [enableMixedAudio : {TRUE}, enablePerParticipantAudio : {TRUE},
                 deepgramApiKey : BOOLEAN]
  /\ session = [InitSession EXCEPT !.audioFormat = Format(16000, 1),
                                   !.metadata.audioFormat = Format(16000, 1),
                                   !.stats.jsonMessages = 1]
  /\ socket = [readyState |-> "open"]
  /\ fin = InitFin
  /\ disk = [live |-> [NewLiveDir EXCEPT !.telemetry = 1],
             completed |-> [i \in ArchiveIndexes |-> NoDir]]
  /\ pipeline = "idle"
  /\ obs = [InitObs EXCEPT !.formats = 1, !.delivered = 1, !.accepted = 1]
  /\ now = 0
  /\ faultsLeft = 0
  /\ InitWav

\* the post-archive task followed to its end
NextPipeline ==
  \/ PipelineSettle
  \/ Next

\* the event loop runs the continuations of finalize; the pipeline's
\* providers need never answer
PipelineSpec == InitPipeline /\ [][NextPipeline]_vars /\ WF_vars(Finalize)

\* a timer that is due has its callback run
TimedSpec == InitTimed /\ [][NextTimed]_vars /\ WF_vars(InactivityTimeout)

(***************************************************************************)
(* A WavWriter on its own (audio.ts:12-50): any sequence of write(buffer)  *)
(* and close() calls on one writer, and the settling of its close.         *)
(***************************************************************************)
\* the formats the writer is constructed with
WavFormats == {Format(16000, 1), Format(48000, 2)}
\* the buffers handed to write(), as Int16 samples
WavBuffers == {<<>>, <<1>>, <<2, 3>>}

InitWavSpec ==
  /\ InitSessionVars
  /\ faultsLeft = MaxFaults
  /\ \E format \in WavFormats :
       /\ wav = WavNewWriter(format)
       /\ wavFile = WavNewFile(format)
  /\ wavOps = 0
  /\ InitAux

\* audio.ts:24-31
WavWrite ==
  /\ wavOps < MaxWavOps
  /\ \E buffer \in WavBuffers :
       /\ wav' = WavWriteWriter(wav, buffer)
       /\ wavFile' = WavWriteFile(wav, wavFile, buffer)
  /\ wavOps' = wavOps + 1
  /\ UNCHANGED <<sessionVars, auxVars>>

\* audio.ts:33-39: the call of close(); on a closed writer it returns at once
WavClose ==
  /\ wavOps < MaxWavOps
  /\ wav' = WavCloseBegin(wav)
  /\ wavOps' = wavOps + 1
  /\ UNCHANGED <<sessionVars, wavFile, auxVars>>

\* audio.ts:40-48: the stream has finished and the header is rewritten, or
\* the rewrite fails and close() rejects
WavSettle ==
  /\ wav.phase = "ending"
  /\ \E ok \in IoOutcomes :
       /\ wav' = WavCloseSettleWriter(wav, ok)
       /\ wavFile' = WavCloseSettleFile(wav, wavFile, ok)
       /\ Spend(~ok)
  /\ UNCHANGED <<config, session, socket, fin, disk, pipeline, obs, now, wavOps, auxVars>>

NextWav ==
  \/ WavWrite
  \/ WavClose
  \/ WavSettle

SpecWav == InitWavSpec /\ [][NextWav]_vars

(***************************************************************************)
(* The post-archive pipeline (deepgram-service.ts): processMeetingFolder   *)
(* on one archive directory.  dg is [pc, cfg, files, i, transcripts,       *)
(* mixedSummary, overall, summaries]: the position, the configuration      *)
(* getConfig() returns, the base names of the audio files findAudioFiles   *)
(* found, the loop index, one transcription result per file, the result    *)
(* of the summarizeText call whose summary is written next to              *)
(* mixed_audio.wav, the result of the call for the returned overall        *)
(* summary, and per file the summary written next to it.                   *)
(***************************************************************************)
\* String.prototype.trim on text whose only white space is the blank
RECURSIVE TrimStart(_)
TrimStart(text) == IF text # <<>> /\ Head(text) = " " THEN TrimStart(Tail(text)) ELSE text
Reverse(text) == [k \in 1..Len(text) |-> text[Len(text) + 1 - k]]
Trim(text) == Reverse(TrimStart(Reverse(TrimStart(text))))

\* the values of SUMMARIZATION_PROVIDER and SUMMARIZATION_LANGUAGE
Providers == {"auto", "openai", "deepgram", "pho-whisper", "custom"}
Languages == {"en", "en-US", "vi"}
DgConfigs ==
  [summarizationProvider : Providers, openaiApiKey : BOOLEAN,
   summarizationLanguage : Languages, enableAutoSummarization : BOOLEAN]

\* deepgram-service.ts:82-86: result.summary.short of a response, or none
NoShortSummary == [set |-> FALSE, text |-> <<>>]
ShortSummary(text) == [set |-> TRUE, text |-> text]
ShortSummaries == {NoShortSummary, ShortSummary(<<" ">>), ShortSummary(<<"s">>)}
\* the transcript of a response: none, white space, words
TranscriptTexts == {<<>>, <<" ">>, <<"h", "i">>}

English(language) == language \in {"en", "en-US"}

\* a request that asks Deepgram for a summary although the language is not
\* English
SummarizeAnyLanguage(enableSummarization, language) == enableSummarization

\* deepgram-service.ts:339, 57-63: options.summarize of the request
SummarizeRequested(enableSummarization, language) ==
  enableSummarization /\ English(language)

\* deepgram-service.ts:36-101: what transcribeAudio makes of a call to
\* Deepgram.  The summary is taken from the response when it holds one
\* (deepgram-service.ts:83)
NoTranscript == [ok |-> FALSE, text |-> <<>>, deepgramSummary |-> NoShortSummary]
TranscribeAudio(response) ==
  IF response.failed THEN NoTranscript
  ELSE [ok |-> TRUE, text |-> response.transcript, deepgramSummary |-> response.short]
\* the responses of Deepgram to a request: summary.short only when the
\* request had options.summarize
DeepgramResponses(summarize) ==
  {[failed |-> TRUE, transcript |-> <<>>, short |-> NoShortSummary]}
    \cup {[failed |-> FALSE, transcript |-> t, short |-> d] :
            t \in TranscriptTexts,
            d \in IF summarize THEN ShortSummaries ELSE {NoShortSummary}}

\* a JavaScript string used as a condition: set and not empty
Truthy(str) == str.set /\ str.text # <<>>

\* what summarizeText and summarizeParticipantText give their caller
SummaryResult(source, called) == [threw |-> FALSE, source |-> source, openaiCalled |-> called]
Rejected(called) == [threw |-> TRUE, source |-> "none", openaiCalled |-> called]
NoResult == [threw |-> FALSE, source |-> "none", openaiCalled |-> FALSE]

\* deepgram-service.ts:128-141
SelectProvider(cfg, deepgramSummary) ==
  IF cfg.summarizationProvider = "auto"
  THEN IF cfg.openaiApiKey THEN "openai"
       ELSE IF Truthy(deepgramSummary) /\ cfg.summarizationLanguage = "en" THEN "deepgram"
       ELSE "custom"
  ELSE cfg.summarizationProvider

\* deepgram-service.ts:161-178: the built-in summary when there is one,
\* the extractive summary otherwise
FallbackSummary(deepgramSummary, called) ==
  IF Truthy(deepgramSummary) /\ Trim(deepgramSummary.text) # <<>>
  THEN SummaryResult("deepgram", called)
  ELSE SummaryResult("custom", called)

\* a failure of the OpenAI call that leaves summarizeText as an exception
OpenAiFailureRaised(deepgramSummary) == Rejected(TRUE)

\* deepgram-service.ts:155-158: the failure is caught and logged
AfterOpenAiFailure(deepgramSummary) == FallbackSummary(deepgramSummary, TRUE)

\* the outcomes of a call to OpenAI (openai-service.ts:31-95)
OpenAiOutcomes == {"ok", "failed"}

\* deepgram-service.ts:110-184
SummarizeText(cfg, text, deepgramSummary, openai) ==
  IF text = <<>> \/ Trim(text) = <<>> THEN SummaryResult("custom", FALSE)
  ELSE IF SelectProvider(cfg, deepgramSummary) = "openai" /\ cfg.openaiApiKey
       THEN IF openai = "ok" THEN SummaryResult("openai", TRUE)
            ELSE AfterOpenAiFailure(deepgramSummary)
       ELSE FallbackSummary(deepgramSummary, FALSE)

\* deepgram-service.ts:189-214: OpenAI, then the extractive summary; the
\* deepgramSummary argument is not read
SummarizeParticipantText(cfg, text, deepgramSummary, openai) ==
  IF cfg.openaiApiKey /\ cfg.summarizationProvider \in {"openai", "auto"}
  THEN IF openai = "ok" THEN SummaryResult("openai", TRUE) ELSE SummaryResult("custom", TRUE)
  ELSE SummaryResult("custom", FALSE)

\* the characters \w and [^_] match among those of a file name
WordChars == Digits \cup LowerLetters \cup DOMAIN UpperToLower \cup {"_"}
NonUnderscore == (WordChars \ {"_"}) \cup {".", " "}

\* whether the literal stands in name at position at, letter case ignored
MatchesAt(name, at, literal) ==
  /\ at + Len(literal) - 1 <= Len(name)
  /\ \A k \in 1..Len(literal) : ToLower(name[at + k - 1]) = literal[k]

\* how many characters of the class follow from position at
RECURSIVE RunLength(_, _, _)
RunLength(name, at, class) ==
  IF at <= Len(name) /\ name[at] \in class THEN 1 + RunLength(name, at + 1, class) ELSE 0

StrParticipantUnderscore == StrParticipant \o <<"_">>
StrUserUnderscore == <<"u", "s", "e", "r", "_">>
StrCombinedUnderscore == <<"c", "o", "m", "b", "i", "n", "e", "d", "_">>
StrWav == <<".", "w", "a", "v">>
NoMatch == [found |-> FALSE, id |-> <<>>]

\* /(?:participant|user)_(\w+)/i, deepgram-service.ts:486: the leftmost
\* place where one of the words stands before at least one \w
MatchParticipantOrUser(name) ==
  LET after(at) == IF MatchesAt(name, at, StrParticipantUnderscore)
                   THEN at + Len(StrParticipantUnderscore)
                   ELSE IF MatchesAt(name, at, StrUserUnderscore)
                        THEN at + Len(StrUserUnderscore)
                        ELSE 0
      hits == {at \in 1..Len(name) : after(at) > 0 /\ RunLength(name, after(at), WordChars) > 0}
  IN  IF hits = {} THEN NoMatch
      ELSE LET at == CHOOSE a \in hits : \A b \in hits : a <= b
           IN  [found |-> TRUE,
                id |-> SubSeq(name, after(at),
                              after(at) + RunLength(name, after(at), WordChars) - 1)]

\* /combined_([^_]+_\d+_\d+)/i, deepgram-service.ts:492
MatchCombined(name) ==
  LET start(at) == at + Len(StrCombinedUnderscore)
      n1(at) == RunLength(name, start(at), NonUnderscore)
      d1At(at) == start(at) + n1(at) + 1
      d1(at) == RunLength(name, d1At(at), Digits)
      d2At(at) == d1At(at) + d1(at) + 1
      d2(at) == RunLength(name, d2At(at), Digits)
      matches(at) ==
        /\ MatchesAt(name, at, StrCombinedUnderscore)
        /\ n1(at) > 0
        /\ MatchesAt(name, start(at) + n1(at), <<"_">>)
        /\ d1(at) > 0
        /\ MatchesAt(name, d1At(at) + d1(at), <<"_">>)
        /\ d2(at) > 0
      hits == {at \in 1..Len(name) : matches(at)}
  IN  IF hits = {} THEN NoMatch
      ELSE LET at == CHOOSE a \in hits : \A b \in hits : a <= b
           IN  [found |-> TRUE, id |-> SubSeq(name, start(at), d2At(at) + d2(at) - 1)]

\* deepgram-service.ts:484-498
ExtractParticipantId(filename) ==
  IF MatchParticipantOrUser(filename).found THEN MatchParticipantOrUser(filename)
  ELSE MatchCombined(filename)

\* path.basename of the session's audio files (session.ts:368, 390-394)
MixedFileName ==
  <<"m", "i", "x", "e", "d", "_", "a", "u", "d", "i", "o">> \o StrWav
CombinedFileName(label) == StrCombinedUnderscore \o label \o StrWav

\* the participants whose container the archive holds: an id with digits
\* and one without, with and without a name from UsersUpdate
DgParticipantIds == {<<"a", "1">>, <<"a", "b">>}
DgParticipantInfos == {NoInfo} \cup {[known |-> TRUE, fullName |-> n, displayName |-> <<>>] : n \in NameInputs}
DgLabels ==
  {BuildParticipantLabel(id, info, 100) : id \in DgParticipantIds, info \in DgParticipantInfos}

\* the pipeline is called on an archive with mixed_audio.wav and the
\* container of one participant
InitDg ==
  \E cfg \in DgConfigs, label \in DgLabels :
    dg = [pc |-> "transcribe", cfg |-> cfg,
          files |-> <<MixedFileName, CombinedFileName(label)>>,
          i |-> 1, transcripts |-> <<>>,
          mixedSummary |-> NoResult, overall |-> NoResult, summaries |-> <<>>]

InitDgSpec ==
  /\ InitSessionVars
  /\ config.enableMixedAudio
  /\ config.enablePerParticipantAudio
  /\ faultsLeft = 0
  /\ wav = NoWriter
  /\ wavFile = NoFile
  /\ wavOps = 0
  /\ InitDg
  /\ server = InitServer
  /\ arch = NoArch
  /\ inbound = 0
  /\ calc = NoCalc

\* deepgram-service.ts:336-361: one file of the loop; a file whose
\* transcription fails is logged and skipped
DgTranscribe ==
  /\ dg.pc = "transcribe"
  /\ \E response \in DeepgramResponses(SummarizeRequested(dg.cfg.enableAutoSummarization,
                                                            dg.cfg.summarizationLanguage)) :
       dg' = [dg EXCEPT !.transcripts = Append(@, TranscribeAudio(response)),
                        !.i = IF dg.i = Len(dg.files) THEN 1 ELSE dg.i + 1,
                        !.pc = IF dg.i = Len(dg.files) THEN "overall" ELSE "transcribe"]
  /\ UNCHANGED <<sessionVars, wavVars, server, arch, inbound, calc>>

\* the index of mixed_audio.wav among the files, 0 when it is not there or
\* has no transcript (deepgram-service.ts:392)
MixedIndex(d) ==
  IF \E k \in 1..Len(d.files) : d.files[k] = MixedFileName /\ d.transcripts[k].ok
  THEN CHOOSE k \in 1..Len(d.files) : d.files[k] = MixedFileName /\ d.transcripts[k].ok
  ELSE 0

\* deepgram-service.ts:350-357, 408: the transcripts kept by participant id,
\* joined
RECURSIVE JoinParticipantTexts(_, _)
JoinParticipantTexts(d, k) ==
  IF k > Len(d.files) THEN <<>>
  ELSE LET rest == JoinParticipantTexts(d, k + 1)
       IN  IF d.transcripts[k].ok /\ ExtractParticipantId(d.files[k]).found
           THEN d.transcripts[k].text \o (IF rest = <<>> THEN <<>> ELSE <<" ">> \o rest)
           ELSE rest

\* deepgram-service.ts:390-411: the summary written next to mixed_audio.wav
\* and the call for the summary that is returned; a call that throws
\* rejects processMeetingFolder
DgOverall ==
  /\ dg.pc = "overall"
  /\ \E first \in OpenAiOutcomes, second \in OpenAiOutcomes :
       LET m == MixedIndex(dg)
           text == IF m > 0 THEN dg.transcripts[m].text ELSE JoinParticipantTexts(dg, 1)
           short == IF m > 0 THEN dg.transcripts[m].deepgramSummary ELSE NoShortSummary
           written == IF m > 0 THEN SummarizeText(dg.cfg, text, short, first) ELSE NoResult
           returned == SummarizeText(dg.cfg, text, short, second)
       IN  dg' = [dg EXCEPT !.mixedSummary = written,
                            !.overall = IF written.threw THEN NoResult ELSE returned,
                            !.pc = IF written.threw \/ returned.threw THEN "rejected"
                                   ELSE "participants"]
  /\ UNCHANGED <<sessionVars, wavVars, server, arch, inbound, calc>>

\* deepgram-service.ts:417-439: one file of the loop; a summary is written
\* for a file with a participant id and a transcript
DgParticipant ==
  /\ dg.pc = "participants"
  /\ \E openai \in OpenAiOutcomes :
       LET id == ExtractParticipantId(dg.files[dg.i])
           transcript == dg.transcripts[dg.i]
           summary == IF id.found /\ transcript.ok
                      THEN SummarizeParticipantText(dg.cfg, transcript.text,
                                                    transcript.deepgramSummary, openai)
                      ELSE NoResult
       IN  dg' = [dg EXCEPT !.summaries = Append(@, summary),
                            !.i = IF dg.i = Len(dg.files) THEN 1 ELSE dg.i + 1,
                            !.pc = IF dg.i = Len(dg.files) THEN "done" ELSE "participants"]
  /\ UNCHANGED <<sessionVars, wavVars, server, arch, inbound, calc>>

NextDg ==
  \/ DgTranscribe
  \/ DgOverall
  \/ DgParticipant

DgSpec == InitDgSpec /\ [][NextDg]_vars

(***************************************************************************)
(* Shutdown of the server (index.ts:53-66).  server.wss is the state of    *)
(* the WebSocketServer, server.via what asked for the shutdown (the SIGINT *)
(* handler or RecorderServer.close), server.openAtShutdown whether the     *)
(* session was open at that moment, server.exited whether process.exit has *)
(* run.                                                                    *)
(***************************************************************************)
\* the session of the runs that follow a shutdown: open, its
\* AudioFormatUpdate received
InitShutdown ==
  /\ config = [enableMixedAudio |-> TRUE, enablePerParticipantAudio |-> TRUE,
               deepgramApiKey |-> TRUE]
  /\ session = [InitSession EXCEPT !.audioFormat = Format(16000, 1),
                                   !.metadata.audioFormat = Format(16000, 1),
                                   !.stats.jsonMessages = 1]
  /\ socket = [readyState |-> "open"]
  /\ fin = InitFin
  /\ disk = [live |-> [NewLiveDir EXCEPT !.telemetry = 1],
             completed |-> [i \in ArchiveIndexes |-> NoDir]]
  /\ pipeline = "idle"
  /\ obs = [InitObs EXCEPT !.formats = 1, !.delivered = 1, !.accepted = 1]
  /\ now = 0
  /\ faultsLeft = 0
  /\ InitWav

\* who can ask for the shutdown: the SIGINT handler (index.ts:60-62) or a
\* caller of RecorderServer.close (index.ts:64-66)
ShutdownCallers == {"sigint", "close"}

\* what wss.close does to a client that is connected: the ws library either
\* terminates it (its socket is destroyed, 'close' is emitted later) or
\* leaves it alone, depending on its version
WssClose(sock, terminatesClients) ==
  IF terminatesClients /\ sock.readyState = "open"
  THEN [sock EXCEPT !.readyState = "closing"]
  ELSE sock

\* index.ts:53-58 up to the await: shutdown() calls wss.close and nothing
\* else; no session is told
Shutdown ==
  /\ server.wss = "listening"
  /\ \E caller \in ShutdownCallers, terminatesClients \in BOOLEAN :
       /\ server' = [server EXCEPT !.wss = "closing", !.via = caller,
                                   !.openAtShutdown = ~session.closed]
       /\ socket' = WssClose(socket, terminatesClients)
  /\ UNCHANGED <<config, session, fin, disk, pipeline, faultsLeft, obs, now,
                 wavVars, dg, arch, inbound, calc>>

\* index.ts:56: the callback of wss.close, called when the HTTP server has
\* closed, which it does when no connection is left
ServerClosed ==
  /\ server.wss = "closing"
  /\ socket.readyState = "closed"
  /\ server' = [server EXCEPT !.wss = "closed"]
  /\ UNCHANGED <<sessionVars, wavVars, dg, arch, inbound, calc>>

\* index.ts:61: shutdown().finally(() => process.exit(0))
ProcessExit ==
  /\ server.wss = "closed"
  /\ server.via = "sigint"
  /\ ~server.exited
  /\ server' = [server EXCEPT !.exited = TRUE]
  /\ UNCHANGED <<sessionVars, wavVars, dg, arch, inbound, calc>>

\* nothing runs in a process that has exited
NextShutdown ==
  \/ Shutdown
  \/ ServerClosed
  \/ ProcessExit
  \/ (~server.exited /\ Next)

ShutdownSpec == InitShutdown /\ [][NextShutdown]_vars

(***************************************************************************)
(* Two sessions that finalize at the same time (session.ts:464-482 and     *)
(* 503-545).  arch.live[s] is the live directory of session s,             *)
(* arch.completed[n][i] the directory completed/<n>, <n>_01, ...; a        *)
(* directory records for each of its files the session that wrote it last. *)
(* arch.name[s] is the folder name buildArchiveFolderName gives session s, *)
(* arch.task[s] the position of its finalize: pc, the candidate dest, the  *)
(* listing.                                                                *)
(***************************************************************************)
ArchSessions == {"s1", "s2"}
\* the folder names of the two sessions: equal when meeting, start second
\* and the first eight characters of the session ids are (session.ts:680-685)
ArchNames == {"n1", "n2"}
ArchFiles == {"telemetry.ndjson", "session-summary.json", "archive.json"}
\* the candidates a session can reach when one other session archives
ArchIndexes == 0..1

NoArchDir == [exists |-> FALSE, files |-> [f \in ArchFiles |-> "none"]]
\* session.ts:93-98: the live directory of s with its telemetry.ndjson
ArchLiveDir(s) == [exists |-> TRUE, files |-> [NoArchDir.files EXCEPT !["telemetry.ndjson"] = s]]

\* the directory the task of session s works on
ArchDestination(a, s) == a.completed[a.name[s]][a.task[s].dest]

InitArch ==
  \E sameName \in BOOLEAN :
    arch = [pc |-> "on",
            name |-> [s \in ArchSessions |->
                        IF sameName \/ s = "s1" THEN "n1" ELSE "n2"],
            live |-> [s \in ArchSessions |-> ArchLiveDir(s)],
            completed |-> [n \in ArchNames |-> [i \in ArchIndexes |-> NoArchDir]],
            task |-> [s \in ArchSessions |->
                        [pc |-> "write_summary", dest |-> 0, listing |-> {}]]]

InitArchSpec ==
  /\ config = [enableMixedAudio |-> TRUE, enablePerParticipantAudio |-> TRUE,
               deepgramApiKey |-> TRUE]
  /\ session = InitSession
  /\ socket = [readyState |-> "open"]
  /\ fin = InitFin
  /\ disk = [live |-> NewLiveDir, completed |-> [i \in ArchiveIndexes |-> NoDir]]
  /\ pipeline = "idle"
  /\ obs = InitObs
  /\ now = 0
  /\ faultsLeft = 0
  /\ wav = NoWriter
  /\ wavFile = NoFile
  /\ wavOps = 0
  /\ dg = NoDg
  /\ server = InitServer
  /\ inbound = 0
  /\ calc = NoCalc
  /\ InitArch

ArchUnchanged == UNCHANGED <<sessionVars, wavVars, dg, server, inbound, calc>>

\* session.ts:464-465: writeFile of the summary in the live directory; a
\* failure ends finalize (session.ts:491-493)
ArchWriteSummary(s) ==
  /\ arch.task[s].pc = "write_summary"
  /\ \E ok \in BOOLEAN :
       arch' = IF ok
               THEN [arch EXCEPT !.live[s].files["session-summary.json"] = s,
                                 !.task[s].pc = "probe"]
               ELSE [arch EXCEPT !.task[s].pc = "aborted"]
  /\ ArchUnchanged

\* session.ts:510-513: one pathExists(destination) of the loop
ArchPathExists(s) ==
  /\ arch.task[s].pc = "probe"
  /\ arch' = IF ArchDestination(arch, s).exists
             THEN [arch EXCEPT !.task[s].dest = @ + 1]
             ELSE [arch EXCEPT !.task[s].pc = "rename"]
  /\ ArchUnchanged

\* a rename that replaces a directory that is in its way
ArchRenameReplaces(a, s, ok) ==
  IF ok
  THEN [a EXCEPT !.completed[a.name[s]][a.task[s].dest] = a.live[s],
                 !.live[s] = NoArchDir,
                 !.task[s].pc = "list"]
  ELSE [a EXCEPT !.task[s].pc = "stayed"]

\* session.ts:515-521: fs.promises.rename(this.baseDir, destination).  A
\* destination that exists is the directory of the other session, which
\* holds its telemetry.ndjson: rename fails on a directory that is not
\* empty (ENOTEMPTY, EEXIST or EPERM), archiveSession returns null
ArchRenameDir(a, s, ok) ==
  IF ok /\ ~ArchDestination(a, s).exists
  THEN [a EXCEPT !.completed[a.name[s]][a.task[s].dest] = a.live[s],
                 !.live[s] = NoArchDir,
                 !.task[s].pc = "list"]
  ELSE [a EXCEPT !.task[s].pc = "stayed"]

ArchRename(s) ==
  /\ arch.task[s].pc = "rename"
  /\ \E ok \in BOOLEAN : arch' = ArchRenameDir(arch, s, ok)
  /\ ArchUnchanged

\* session.ts:523: listRelativeFiles(destination)
ArchListFiles(s) ==
  /\ arch.task[s].pc = "list"
  /\ arch' = [arch EXCEPT !.task[s].listing =
                            {f \in ArchFiles : ArchDestination(arch, s).files[f] # "none"},
                          !.task[s].pc = "manifest"]
  /\ ArchUnchanged

\* session.ts:533-534: writeFile of destination/archive.json
ArchWriteManifest(s) ==
  /\ arch.task[s].pc = "manifest"
  /\ \E ok \in BOOLEAN :
       arch' = IF ok
               THEN [arch EXCEPT !.completed[arch.name[s]][arch.task[s].dest].files["archive.json"] = s,
                                 !.task[s].pc = "rewrite"]
               ELSE [arch EXCEPT !.task[s].pc = "aborted"]
  /\ ArchUnchanged

\* session.ts:481-482: writeFile of archivePath/session-summary.json
ArchRewriteSummary(s) ==
  /\ arch.task[s].pc = "rewrite"
  /\ \E ok \in BOOLEAN :
       arch' = IF ok
               THEN [arch EXCEPT !.completed[arch.name[s]][arch.task[s].dest].files["session-summary.json"] = s,
                                 !.task[s].pc = "done"]
               ELSE [arch EXCEPT !.task[s].pc = "aborted"]
  /\ ArchUnchanged

NextArch ==
  \/ \E s \in ArchSessions : ArchWriteSummary(s)
  \/ \E s \in ArchSessions : ArchPathExists(s)
  \/ \E s \in ArchSessions : ArchRename(s)
  \/ \E s \in ArchSessions : ArchListFiles(s)
  \/ \E s \in ArchSessions : ArchWriteManifest(s)
  \/ \E s \in ArchSessions : ArchRewriteSummary(s)

ArchSpec == InitArchSpec /\ [][NextArch]_vars

(***************************************************************************)
(* Messages of fewer than 4 bytes, counted (session.ts:119-143).           *)
(***************************************************************************)
ShortLengths == 0..3

\* session.ts:119-138 on an open session and a message of len bytes, len
\* below 4: no bytes, handleMessage returns at once (125-127); 1 to 3
\* bytes, dispatch throws and the catch counts the frame (141-143, 134-137)
HandleShortMessage(len) ==
  IF len = 0 THEN Ctx(session, disk.live.wavs)
  ELSE CatchDispatch([Entry EXCEPT !.threw = TRUE])

RecvBytes ==
  /\ CanDeliver
  /\ ~session.closed
  /\ inbound < MaxShort
  /\ \E len \in ShortLengths :
       LET c == HandleShortMessage(len)
       IN  /\ session' = c.s
           /\ disk' = [disk EXCEPT !.live.wavs = c.wavs]
           /\ obs' = IF len = 0 THEN obs ELSE Delivered(obs, FALSE)
  /\ inbound' = inbound + 1
  /\ UNCHANGED <<config, socket, fin, pipeline, faultsLeft, now, wavVars,
                 dg, server, arch, calc>>

NextShort ==
  \/ RecvBytes
  \/ Next

ShortSpec == InitShutdown /\ [][NextShort]_vars

(***************************************************************************)
(* Functions of the sources called on their own.  calc.fn names the        *)
(* function, calc.arg is its argument, calc.done whether the call has      *)
(* returned, calc.result what it returned.                                 *)
(***************************************************************************)
\* the strings of at most n characters of the alphabet
StringsUpTo(alphabet, n) == UNION {[1..k -> alphabet] : k \in 0..n}

\* participant ids: a letter and two digits, in any order, and the empty id
\* of a ParticipantAudio frame with idLen = 0
DeviceIdInputs == StringsUpTo({"a", "1", "2"}, MaxIdLen)

CalcUnchanged == UNCHANGED <<sessionVars, wavVars, dg, server, arch, inbound>>

InitCalcSession ==
  /\ config = [enableMixedAudio |-> TRUE, enablePerParticipantAudio |-> TRUE,
               deepgramApiKey |-> TRUE]
  /\ session = InitSession
  /\ socket = [readyState |-> "open"]
  /\ fin = InitFin
  /\ disk = [live |-> NewLiveDir, completed |-> [i \in ArchiveIndexes |-> NoDir]]
  /\ pipeline = "idle"
  /\ obs = InitObs
  /\ now = 0
  /\ faultsLeft = 0
  /\ wav = NoWriter
  /\ wavFile = NoFile
  /\ wavOps = 0
  /\ dg = NoDg
  /\ server = InitServer
  /\ arch = NoArch
  /\ inbound = 0

\* a call that has not returned yet
CalcCall(fn, arg) == [fn |-> fn, arg |-> arg, done |-> FALSE, result |-> <<>>]

CalcDeviceSuffixCalls == {CalcCall("extractDeviceSuffix", id) : id \in DeviceIdInputs}

\* session.ts:632-642
CalcExtractDeviceSuffix ==
  /\ calc.fn = "extractDeviceSuffix"
  /\ ~calc.done
  /\ calc' = [calc EXCEPT !.done = TRUE, !.result = ExtractDeviceSuffix(calc.arg)]
  /\ CalcUnchanged

\* the participants of the frames: the empty id of idLen = 0, an id without
\* digits and one with; no UsersUpdate has named any of them
CalcParticipantIds == {<<>>, <<"a", "b">>, <<"a", "1">>}

\* a session that knows its audio format and holds no writer yet
CalcSession ==
  [InitSession EXCEPT !.audioFormat = Format(16000, 1),
                      !.participantInfo = [p \in CalcParticipantIds |-> NoInfo],
                      !.participantWriters = [p \in CalcParticipantIds |-> NoWriterState],
                      !.participantLabels = [p \in CalcParticipantIds |-> <<>>]]

\* calc.arg: the ids of the frames handled so far; calc.result: the session
\* and the files they left
CalcParticipantAudioCalls ==
  {[fn |-> "handleParticipantAudio", arg |-> <<>>, done |-> FALSE,
    result |-> Ctx(CalcSession, <<>>)]}

\* session.ts:166-170 and 320-361: one ParticipantAudio frame with the id
\* and one sample of audio
CalcHandleParticipantAudio ==
  /\ calc.fn = "handleParticipantAudio"
  /\ Len(calc.arg) < MaxCalcFrames
  /\ \E id \in CalcParticipantIds, randomPart \in RandDigits :
       calc' = [calc EXCEPT
                  !.arg = Append(@, id),
                  !.done = TRUE,
                  !.result = HandleParticipantAudio(
                               BumpStat(@, "participantAudioFrames"),
                               [envelope |-> "ok", id |-> id, audio |-> PayloadA],
                               randomPart)]
  /\ CalcUnchanged

\* Array.prototype.slice(begin, end): a negative index counts from the end,
\* and -0 is 0
JsSlice(seq, begin, end) ==
  LET n == Len(seq)
      from == IF begin < 0 THEN Max(n + begin, 0) ELSE Min(begin, n)
      to == IF end < 0 THEN Max(n + end, 0) ELSE Min(end, n)
  IN  SubSeq(seq, from + 1, to)
JsSliceFrom(seq, begin) == JsSlice(seq, begin, Len(seq))

\* Math.ceil(n * 0.3) and Math.ceil(n / 2)
CeilThreeTenths(n) == (3 * n + 9) \div 10
CeilHalf(n) == (n + 1) \div 2

\* A text is the sequence of its pieces between the sentence ends [.!?]+.
\* A piece is "short" (at most 10 characters once trimmed), "plain", or
\* "marked": a sentence such as "chung ta phai quyet dinh ve van de", with a
\* word of every pattern list of deepgram-service.ts:249-255, 267-270,
\* 282-285 and 297-300.  A sentence is named by its place in the text.
PieceKinds == {"short", "plain", "marked"}
TextInputs == UNION {[1..k -> PieceKinds] : k \in 0..MaxSentences}

\* text.split(/[.!?]+/).filter(s => s.trim().length > 10), after place from
RECURSIVE SplitSentences(_, _)
SplitSentences(text, from) ==
  IF from > Len(text) THEN <<>>
  ELSE (IF text[from] # "short" THEN <<from>> ELSE <<>>) \o SplitSentences(text, from + 1)

\* sentences.filter(s => patterns.some(p => p.test(s))).slice(0, cap)
RECURSIVE MatchingSentences(_, _)
MatchingSentences(text, sentences) ==
  IF sentences = <<>> THEN <<>>
  ELSE (IF text[Head(sentences)] = "marked" THEN <<Head(sentences)>> ELSE <<>>)
         \o MatchingSentences(text, Tail(sentences))
ExtractMatches(text, cap) == JsSlice(MatchingSentences(text, SplitSentences(text, 1)), 0, cap)

\* deepgram-service.ts:247-259, 264-274, 279-289, 294-304
ExtractKeyPoints(text) == ExtractMatches(text, 5)
ExtractActionItems(text) == ExtractMatches(text, 3)
ExtractDecisions(text) == ExtractMatches(text, 3)
ExtractTopics(text) == ExtractMatches(text, 5)

\* deepgram-service.ts:219-242: summary is the sequence of the sentences
\* that are joined by ". "
GenerateCustomSummary(text) ==
  LET sentences == SplitSentences(text, 1)
      summaryLength == Min(3, CeilThreeTenths(Len(sentences)))
      summarySentences == JsSlice(sentences, 0, CeilHalf(summaryLength))
                            \o JsSliceFrom(sentences, 0 - (summaryLength \div 2))
  IN  [summary |-> summarySentences,
       keyPoints |-> ExtractKeyPoints(text),
       actionItems |-> ExtractActionItems(text),
       decisions |-> ExtractDecisions(text),
       topics |-> ExtractTopics(text)]

CalcSummaryCalls == {CalcCall("generateCustomSummary", text) : text \in TextInputs}

CalcGenerateCustomSummary ==
  /\ calc.fn = "generateCustomSummary"
  /\ ~calc.done
  /\ calc' = [calc EXCEPT !.done = TRUE, !.result = GenerateCustomSummary(calc.arg)]
  /\ CalcUnchanged

\* Float32 samples from below -1 to above 1 in steps of 1 / FloatDen, and
\* the three that are not finite
SampleInputs ==
  {Num(q) : q \in (0 - FloatDen - 1)..(FloatDen + 1)} \cup {NaN, PosInf, NegInf}
\* payloads of 0 to 4 * MaxCalcSamples + 3 bytes
PayloadInputs ==
  {Payload(samples, extra) :
     samples \in UNION {[1..k -> SampleInputs] : k \in 0..MaxCalcSamples},
     extra \in 0..3}

CalcConvertCalls == {CalcCall("convertFloat32ToInt16", payload) : payload \in PayloadInputs}

\* session.ts:314-317: writer.write(convertFloat32ToInt16(payload)) on a
\* mixed writer that has just been made; calc.result is the session and the
\* files afterwards
CalcConvertFloat32ToInt16 ==
  /\ calc.fn = "convertFloat32ToInt16"
  /\ ~calc.done
  /\ calc' = [calc EXCEPT
                 !.done = TRUE,
                 !.result = WriteMixedChunk(
                              EnsureMixedAudioWriter(Ctx(CalcSession, <<>>), Format(16000, 1)),
                              calc.arg)]
  /\ CalcUnchanged

InitCalc ==
  /\ InitCalcSession
  /\ calc \in CalcDeviceSuffixCalls \cup CalcParticipantAudioCalls
                \cup CalcSummaryCalls \cup CalcConvertCalls

NextCalc ==
  \/ CalcExtractDeviceSuffix
  \/ CalcHandleParticipantAudio
  \/ CalcGenerateCustomSummary
  \/ CalcConvertFloat32ToInt16

CalcSpec == InitCalc /\ [][NextCalc]_vars

(***************************************************************************)
(* What the properties read.                                               *)
(***************************************************************************)
\* the session's directory has been renamed into completed/
Moved == \E i \in ArchiveIndexes : disk.completed[i].owner = "self"
\* the directory it was renamed to
ArchiveDir ==
  IF Moved THEN disk.completed[CHOOSE i \in ArchiveIndexes : disk.completed[i].owner = "self"]
  ELSE NoDir
\* the session's directory, at the live path or under completed/
SessionDir == IF disk.live.exists THEN disk.live ELSE ArchiveDir
\* session-summary.json is on disk
SummaryWritten == SessionDir.summary.exists
\* mixed_audio.wav of the session
MixedFile ==
  IF MixedPath \in DOMAIN SessionDir.wavs THEN SessionDir.wavs[MixedPath] ELSE NoFile
\* close() was called and closeAudioWriters has returned
WritersClosed ==
  /\ session.closed
  /\ fin.pc \notin {"telemetry_ending", "closing_writers"}
\* mixed_audio.wav of the session that had its format from the start
FormatFirstFile ==
  IF MixedPath \in DOMAIN obs.formatFirst.wavs THEN obs.formatFirst.wavs[MixedPath] ELSE NoFile

(***************************************************************************)
(* C1.  close() is idempotent.                                             *)
(***************************************************************************)
C1Effects ==
  /\ session.closed => fin.reason = obs.firstReason
  /\ SummaryWritten => SessionDir.summary.reason = obs.firstReason
  /\ obs.writerCloseRuns <= 1 /\ obs.summaryWrites <= 1 /\ obs.archiveRuns <= 1
  /\ fin.pc = "done" =>
       obs.writerCloseRuns = 1 /\ obs.summaryWrites = 1 /\ obs.archiveRuns = 1

C1LaterCall ==
  (session.closed /\ obs'.closeCalls # obs.closeCalls) =>
    /\ session' = session
    /\ fin' = fin
    /\ disk' = disk
    /\ pipeline' = pipeline

\* C1: whatever the close triggers and their order, the session keeps the
\* reason of the first call and the summary records it; closeAudioWriters,
\* the summary write and archiveSession run at most once, and exactly once
\* in a finalize that completes; a call of close() on a closed session
\* changes neither the session, nor the finalize task, nor the disk, nor the
\* pipeline.
C1_CloseIdempotent == []C1Effects /\ [][C1LaterCall]_vars

\* a session closed by the server, closed again by the socket's close event,
\* and finalized with the first reason in its summary
C1_Witness ==
  /\ obs.closeCalls >= 2
  /\ fin.pc = "done"
  /\ obs.firstReason = "inactivity_timeout"
  /\ Moved
  /\ ArchiveDir.summary.reason = "inactivity_timeout"

(***************************************************************************)
(* C2.  The pending queues after the first format.                         *)
(***************************************************************************)
\* C2: once an AudioFormatUpdate carrying a format has been handled,
\* pendingMixedAudio and pendingParticipantAudio are empty, and stay empty.
C2_PendingEmptyOnceFormatKnown ==
  obs.formats > 0 =>
    /\ session.pendingMixedAudio = <<>>
    /\ session.pendingParticipantAudio = <<>>

(***************************************************************************)
(* C3.  The data region of mixed_audio.wav.                                *)
(***************************************************************************)
\* C3: with mixed audio enabled and at least one format before close, the
\* data region of mixed_audio.wav after close is the concatenation, in
\* arrival order, of the conversion of each non-empty MixedAudio payload,
\* once each, and the header's data length is its length in bytes.
C3_MixedDataIsConcatenation ==
  (WritersClosed /\ config.enableMixedAudio /\ obs.formats > 0 /\ obs.faults = 0) =>
    /\ MixedFile.data = obs.mixedData
    /\ MixedFile.exists => MixedFile.hdr.dataLen = 2 * Len(obs.mixedData)

(***************************************************************************)
(* C4.  The place of the format among the MixedAudio frames.               *)
(***************************************************************************)
\* C4: with one AudioFormatUpdate F among the MixedAudio frames, the
\* mixed_audio.wav after close is byte for byte the file of the session
\* that handled F first and the same frames after it.
C4_FormatPlacementIrrelevant ==
  (WritersClosed /\ config.enableMixedAudio /\ obs.formats = 1 /\ obs.faults = 0) =>
    /\ MixedFile.exists = FormatFirstFile.exists
    /\ MixedFile.data = FormatFirstFile.data
    /\ MixedFile.exists =>
         MixedFile.hdr = CreateWaveHeader(session.audioFormat, 2 * Len(FormatFirstFile.data))

(***************************************************************************)
(* C5.  One counter per frame.                                             *)
(***************************************************************************)
C5OneCounter ==
  obs'.accepted = obs.accepted + 1 =>
    StatsSum(session'.stats) = StatsSum(session.stats) + 1

\* C5: a frame whose 4-byte header can be read raises the six stats
\* counters by one in all, also when its handler throws.
C5_OneCounterPerFrame == [][C5OneCounter]_vars

(***************************************************************************)
(* C6.  The header of a closed WavWriter's file.                           *)
(***************************************************************************)
C6Header ==
  wav.phase = "done" =>
    /\ wavFile.hdr.dataLen = 2 * Len(wavFile.data)
    /\ wavFile.hdr.dataLen = wav.bytesWritten
    /\ wavFile.hdr.dataLen = FileSize(wavFile) - HeaderBytes
    /\ wavFile.hdr.chunkSize = RiffOverhead + wavFile.hdr.dataLen

C6CallOnClosed ==
  (wav.closed /\ wavOps' # wavOps) =>
    /\ wavFile' = wavFile
    /\ wav' = wav

C7WriteOrder ==
  (~SummaryWritten /\ SummaryWritten') =>
    /\ fin.pc = "closing_writers"
    /\ \A w \in AllWriters(session) : w.phase = "done" /\ w.hdrRewritten

\* C7: where no I/O operation fails, a closed session eventually has its
\* session-summary.json, and the step that writes it is taken after the
\* telemetry stream has ended and with every PCM writer's close settled and
\* its header rewritten.
C7_SummaryAfterWriters == [][C7WriteOrder]_vars /\ (session.closed ~> SummaryWritten)

\* a summary on disk of a session that closed a mixed and a participant writer
C7_Witness ==
  /\ SummaryWritten
  /\ session.mixedAudioWriter.phase = "done"
  /\ \E p \in ParticipantIds : session.participantWriters[p].writer.phase = "done"

(***************************************************************************)
(* C8.  A writer whose close fails.                                        *)
(***************************************************************************)
\* the close of one writer has failed, and no other I/O operation
OneCloseFailed ==
  /\ obs.faults = 1
  /\ \E w \in AllWriters(session) : w.phase = "failed"

OthersClosed ==
  \A w \in AllWriters(session) : w.phase = "failed" \/ (w.phase = "done" /\ w.hdrRewritten)

\* C8: when the close of one PCM writer fails, finalize is not abandoned, and
\* (unless a later operation fails too) the session comes to have every
\* other writer closed with its header rewritten, its session-summary.json
\* written and its directory archived.
C8_OtherWritersStillClose ==
  /\ [](OneCloseFailed => fin.pc # "aborted")
  /\ OneCloseFailed ~>
       (obs.faults > 1
          \/ (OthersClosed /\ SummaryWritten /\ obs.archiveRuns = 1 /\ fin.pc = "done" /\ Moved))

\* archived with the mixed writer's close failed and a participant writer's
\* header rewritten
C8_Witness ==
  /\ OneCloseFailed
  /\ session.mixedAudioWriter.phase = "failed"
  /\ \E p \in ParticipantIds :
       /\ session.participantWriters[p].writer.phase = "done"
       /\ session.participantWriters[p].writer.hdrRewritten
  /\ fin.pc = "done"
  /\ Moved

(***************************************************************************)
(* C9.  The move to completed/ fails.                                      *)
(***************************************************************************)
C9Terminal ==
  obs.moveFailed =>
    /\ fin.pc = "done"
    /\ disk.live.exists
    /\ disk.live.summary.exists
    /\ disk.live.summary.metadata.archiveIndex = -1
    /\ ~disk.live.manifest.exists
    /\ ~Moved
    /\ session.metadata.archiveIndex = -1
    /\ pipeline = "idle"

C9NothingTouched ==
  (obs'.moveFailed) => (disk' = disk /\ pipeline' = pipeline)

\* C9: when the rename of the live directory fails, finalize ends at once;
\* the failed rename and everything after it leave the disk as it was: the
\* live directory with its files and its summary, without archivePath or
\* manifestPath; nothing of the session is under completed/, there is no
\* archive.json, and the pipeline is not started.
C9_MoveFailureLeavesLiveDir == []C9Terminal /\ [][C9NothingTouched]_vars

\* a session with a recording whose move failed
C9_Witness ==
  /\ obs.moveFailed
  /\ fin.pc = "done"
  /\ disk.live.summary.exists
  /\ MixedPath \in DOMAIN disk.live.wavs

(***************************************************************************)
(* C10.  The directory once moved.                                         *)
(***************************************************************************)
\* archive.json and the summary that records archivePath and manifestPath
ArchiveComplete ==
  /\ ArchiveDir.manifest.exists
  /\ ArchiveDir.summary.exists
  /\ ArchiveDir.summary.metadata.archiveIndex = fin.dest

LowerTaken(dest) == \A i \in 0..(dest - 1) : disk.completed[i].exists

C11FirstFree ==
  /\ fin.pc = "archive_rename" => (LowerTaken(fin.dest) /\ ~disk.completed[fin.dest].exists)
  /\ \A i \in ArchiveIndexes :
       disk.completed[i].owner = "self" =>
         /\ i = fin.dest
         /\ \A j \in 0..(i - 1) : disk.completed[j].owner = "other"
  /\ Destination(0) = BaseName
  /\ \A i \in ArchiveIndexes \ {0} :
       i < 10 => Destination(i) = BaseName \o <<"_", "0", DigitChar(i)>>

C11ForeignKept ==
  \A i \in ArchiveIndexes :
    disk.completed[i].owner = "other" => disk'.completed[i] = disk.completed[i]

\* C11: the directory is renamed to the first of <base>, <base>_01,
\* <base>_02, ... that pathExists found free, every candidate before it being
\* taken; a completed directory of another meeting is never changed by the
\* archiving of the session.
C11_FirstFreeDestination == []C11FirstFree /\ [][C11ForeignKept]_vars

\* the session archived as <base>_01 next to the directory that holds <base>
C11_Witness ==
  /\ disk.completed[0] = ForeignDir
  /\ disk.completed[1].owner = "self"
  /\ Destination(fin.dest) = BaseName \o <<"_", "0", "1">>

(***************************************************************************)
(* C12.  The file list of archive.json.                                    *)
(***************************************************************************)
\* the paths archive.json lists
ManifestPaths == {ArchiveDir.manifest.files[i].path : i \in DOMAIN ArchiveDir.manifest.files}

\* the list is in ascending path order with one entry per file, and every
\* path is relative to the completed directory
C12SortedRelative ==
  LET files == ArchiveDir.manifest.files
  IN  /\ \A i, j \in DOMAIN files : i < j => PathBefore(files[i].path, files[j].path)
      /\ \A i \in DOMAIN files :
           /\ files[i].path # <<>>
           /\ Head(files[i].path) \notin {"recordings/", "completed/", "/"}

C13Window ==
  /\ ~session.closed =>
       /\ session.inactivityTimer.set
       /\ session.inactivityTimer.deadline = obs.lastFrameAt + InactivityTimeoutMs
       /\ now <= obs.lastFrameAt + InactivityTimeoutMs
  /\ fin.reason = "inactivity_timeout" =>
       /\ fin.idleMs >= InactivityTimeoutMs
       /\ now - obs.lastFrameAt >= InactivityTimeoutMs
  /\ (SummaryWritten /\ SessionDir.summary.reason = "inactivity_timeout") =>
       SessionDir.summary.idleMsBeforeClose >= InactivityTimeoutMs

\* C13: an open session always has its timer pending, due one window after
\* the last message of at least one byte (after the start when there was
\* none), and the clock of an open session never passes that time; the
\* session comes to be closed, by the timer when nothing else closes it; a
\* session closed with reason inactivity_timeout is closed no less than one
\* window after its last such message, and its summary records an
\* idleMsBeforeClose of at least the window.
C13_InactivityWindow == []C13Window /\ (~session.closed ~> session.closed)

\* a session that took a frame half a window after its start and was closed
\* by the timer one window after that frame, with its summary written
C13_Witness ==
  /\ SummaryWritten
  /\ SessionDir.summary.reason = "inactivity_timeout"
  /\ obs.lastFrameAt = TickMs
  /\ SessionDir.summary.idleMsBeforeClose = InactivityTimeoutMs
  /\ SessionDir.summary.durationMs = TickMs + InactivityTimeoutMs

(***************************************************************************)
(* C14.  When a PCM writer exists.                                         *)
(***************************************************************************)
\* the container files the writers of the session own
WriterFiles ==
  (IF session.mixedAudioWriter.phase # "absent" THEN {MixedPath} ELSE {})
    \cup {session.participantWriters[p].files[1] :
            p \in {q \in ParticipantIds : session.participantWriters[q].writer.phase # "absent"}}

C14WriterOnlyIf ==
  /\ session.mixedAudioWriter.phase # "absent" =>
       /\ session.audioFormat.set /\ obs.formats > 0
       /\ config.enableMixedAudio
       /\ MixedStream \in obs.audioSeen
  /\ \A p \in ParticipantIds :
       session.participantWriters[p].writer.phase # "absent" =>
         /\ session.audioFormat.set /\ obs.formats > 0
         /\ config.enablePerParticipantAudio
         /\ p \in obs.audioSeen
  /\ DOMAIN SessionDir.wavs = WriterFiles
  /\ \A k \in DOMAIN SessionDir.wavs : SessionDir.wavs[k].exists

C14NoAudioNoFile ==
  (obs.formats = 0
     \/ (session.stats.mixedAudioFrames = 0 /\ session.stats.participantAudioFrames = 0)) =>
    /\ DOMAIN SessionDir.wavs = {}
    /\ session.audioFiles = [mixed |-> <<>>, participants |-> <<>>]
    /\ SummaryWritten =>
         SessionDir.summary.metadata.audioFiles = [mixed |-> <<>>, participants |-> <<>>]

\* C14: the mixed writer, and the writer of a participant, exists only if an
\* AudioFormatUpdate has set the format, the feature flag of the stream is
\* on and a payload with audio bytes has been received for the stream; the
\* container files of the session directory are those of its writers; a
\* session that has received no audio frame, or no format, has no container
\* file, and its summary lists none.
C14_WriterNeedsFormatFlagAudio == C14WriterOnlyIf /\ C14NoAudioNoFile

\* a summary written for a session whose format never came: the mixed audio
\* it had queued is dropped, and no file was made
C14_Witness ==
  /\ SummaryWritten
  /\ obs.formats = 0
  /\ Len(session.pendingMixedAudio) = 2
  /\ DOMAIN SessionDir.wavs = {}
  /\ SessionDir.summary.stats.mixedAudioFrames = 2

(***************************************************************************)
(* C15.  One writer, one label and one directory per participant.          *)
(***************************************************************************)
HasWriter(s, p) == s.participantWriters[p].writer.phase # "absent"

\* the container file of participant p
ParticipantFile(p) == SessionDir.wavs[session.participantWriters[p].files[1]]

C15OneWriter ==
  \A p \in ParticipantIds :
    HasWriter(session, p) =>
      /\ session.participantWriters[p].label = session.participantLabels[p]
      /\ session.participantWriters[p].files =
           <<ParticipantPath(session.participantLabels[p])>>
      /\ session.participantLabels[p] \in DOMAIN session.audioFiles.participants
      /\ ~session.closed => session.participantWriters[p].writer.phase = "open"
      /\ (\A q \in ParticipantIds \ {p} :
            session.participantLabels[q] # session.participantLabels[p]) =>
           ParticipantFile(p).data = obs.participantData[p]

C15LabelKept ==
  \A p \in ParticipantIds :
    /\ session.participantLabels[p] # <<>> =>
         session'.participantLabels[p] = session.participantLabels[p]
    /\ HasWriter(session, p) =>
         /\ session'.participantWriters[p].label = session.participantWriters[p].label
         /\ session'.participantWriters[p].files = session.participantWriters[p].files
         /\ session'.participantWriters[p].writer.format =
              session.participantWriters[p].writer.format
         /\ session'.participantWriters[p].writer.bytesWritten >=
              session.participantWriters[p].writer.bytesWritten
         /\ DOMAIN session.audioFiles.participants \subseteq
              DOMAIN session'.audioFiles.participants

\* C15: a participant's writer carries the label cached for the participant
\* and the one file under participants/<label>; no step, whatever event it
\* handles, changes the label, the file or the format of a writer that
\* exists, or takes back bytes it has written; the writer is open as long as
\* the session is, and (its label being its own) its file holds the audio of
\* every ParticipantAudio frame received for the participant, in order.
C15_OneWriterPerParticipant == []C15OneWriter /\ [][C15LabelKept]_vars

\* a writer made before the UsersUpdate that names the participant: it keeps
\* the label without a name and holds the audio received before and after
C15_Witness ==
  \E p \in ParticipantIds :
    /\ HasWriter(session, p)
    /\ session.participantInfo[p].known
    /\ session.participantLabels[p] = BuildParticipantLabel(p, NoInfo, 100)
    /\ Len(ParticipantFile(p).data) = 2
    /\ session.stats.jsonMessages = 2

(***************************************************************************)
(* C16.  Labels of different participants.                                 *)
(***************************************************************************)
\* C16: two different participantIds never have the same label, and so never
\* the same directory or container file, whatever generateRandomDigits
\* returns.
C16_LabelsUnique ==
  \A p, q \in ParticipantIds :
    (p # q /\ session.participantLabels[p] # <<>> /\ session.participantLabels[q] # <<>>) =>
      /\ session.participantLabels[p] # session.participantLabels[q]
      /\ session.participantWriters[p].files # session.participantWriters[q].files

(***************************************************************************)
(* C17.  The sample rate a container declares.                             *)
(***************************************************************************)
\* C17: when the writers have been closed (no I/O operation having failed),
\* every container of the session declares in its header the sample rate of
\* the last AudioFormatUpdate, also when the writer was made under an
\* earlier update with another rate (all rates being positive).
C17_HeaderDeclaresFinalRate ==
  (/\ WritersClosed
   /\ obs.faults = 0
   /\ session.audioFormat.sampleRate > 0
   /\ \A w \in AllWriters(session) : w.format.sampleRate > 0) =>
    \A k \in DOMAIN SessionDir.wavs :
      SessionDir.wavs[k].hdr.sampleRate = session.audioFormat.sampleRate

(***************************************************************************)
(* C18.  Which AudioFormatUpdate events are accepted.                      *)
(***************************************************************************)
\* C18: only an update whose sampleRate is a positive number is stored or
\* makes a writer, so the stored format and the format of every writer have
\* a positive sample rate.
C18_StoredFormatIsValid ==
  /\ session.audioFormat.set => session.audioFormat.sampleRate > 0
  /\ \A w \in AllWriters(session) : w.format.sampleRate > 0

(***************************************************************************)
(* C19.  The lines of telemetry.ndjson.                                    *)
(***************************************************************************)
\* C19: once close has finished, telemetry.ndjson has as many lines as
\* stats.jsonMessages counts, whatever text the Json frames carried.
C19_OneLinePerJsonMessage ==
  fin.pc = "done" => SessionDir.telemetry = session.stats.jsonMessages

(***************************************************************************)
(* C20.  removed_from_meeting.                                             *)
(***************************************************************************)
\* the PCM bytes of every audio file of the session
WrittenAudio == [p \in DOMAIN SessionDir.wavs |-> SessionDir.wavs[p].data]

\* the step of an open session that receives the event
C20Removed == ~session.closed /\ CanDeliverOther /\ StatusChange("removed_from_meeting")

\* that step closes with the reason, and the event is counted and logged
C20Closes ==
  C20Removed =>
    /\ session'.closed
    /\ fin'.reason = "removed_from_meeting"
    /\ fin'.pc = "telemetry_ending"
    /\ session'.stats.jsonMessages = session.stats.jsonMessages + 1
    /\ SessionDir'.telemetry = SessionDir.telemetry + 1

\* nothing is counted or written once the session is closed
C20NothingAfter ==
  session.closed =>
    /\ session'.closed
    /\ session'.stats = session.stats
    /\ SessionDir'.telemetry = SessionDir.telemetry
    /\ WrittenAudio' = WrittenAudio

\* C20: a MeetingStatusChange with change removed_from_meeting received by
\* an open session closes it with reason removed_from_meeting, the event is
\* counted and is in the telemetry log, and no frame after it is counted or
\* written.
C20_RemovedFromMeetingCloses == [][C20Closes /\ C20NothingAfter]_vars

C20_Witness ==
  /\ fin.pc = "done"
  /\ fin.reason = "removed_from_meeting"
  /\ SessionDir.summary.reason = "removed_from_meeting"
  /\ socket.readyState # "closed"
  /\ session.stats.jsonMessages >= 2
  /\ SessionDir.telemetry >= 2

(***************************************************************************)
(* C23.  The write of session-summary.json fails.                          *)
(***************************************************************************)
\* C23: a write of session-summary.json that failed during close has been
\* followed by a second attempt by the time finalize has ended, and the
\* live directory is then still in place.
C23_SummaryWriteRetried ==
  (fin.pc = "aborted" /\ ~SummaryWritten) =>
    /\ obs.summaryWrites = 2
    /\ disk.live.exists /\ ~Moved

(***************************************************************************)
(* C30.  The queues of audio that waits for a format.                      *)
(***************************************************************************)
\* a cap below the number of frames one run of the model delivers
PendingCap == MaxFrames - 1

\* C30: pendingMixedAudio and every queue of pendingParticipantAudio hold at
\* most PendingCap chunks.
C30_PendingQueuesCapped ==
  /\ Len(session.pendingMixedAudio) <= PendingCap
  /\ \A i \in DOMAIN session.pendingParticipantAudio :
       Len(session.pendingParticipantAudio[i].buffers) <= PendingCap

(***************************************************************************)
(* C24.  The post-archive pipeline fails.                                  *)
(***************************************************************************)
\* the archived directory holds archive.json and the summary with
\* archivePath and manifestPath
C24Sealed ==
  /\ Moved
  /\ ArchiveDir.manifest.exists
  /\ ArchiveDir.summary.exists
  /\ ArchiveDir.summary.metadata.archiveIndex # -1

\* the pipeline is started on an archived directory that has its manifest
C24Started == pipeline # "idle" => Moved /\ ArchiveDir.manifest.exists

\* a step in which the pipeline settles, and the failure at its start,
\* leave the session, its finalize task and its files as they are
C24Settles ==
  /\ (pipeline # "idle" /\ pipeline' # pipeline) =>
       UNCHANGED <<session, socket, fin, disk>>
  /\ (pipeline = "idle" /\ pipeline' = "failed") => fin'.pc = "rewrite_summary"

\* C24: whatever the pipeline does (no provider, a failure, no answer at
\* all), the session ends with its archive directory, archive.json and the
\* enriched session-summary.json, and the failure reaches no step of
\* finalize.
C24_PipelineFailureLeavesTerminalState ==
  /\ []C24Started
  /\ [][C24Settles]_vars
  /\ (pipeline # "idle" ~> (fin.pc = "done" /\ C24Sealed))

C24_Witness ==
  /\ pipeline = "failed"
  /\ fin.pc = "done"
  /\ C24Sealed
  /\ MixedPath \in DOMAIN ArchiveDir.wavs

(***************************************************************************)
(* C28.  When the pipeline starts to read.                                 *)
(***************************************************************************)
\* C28: whenever the pipeline has started to read the archive directory,
\* archive.json is written and session-summary.json holds archivePath and
\* manifestPath.
C28_PipelineReadsSealedArchive ==
  pipeline = "reading" =>
    /\ ArchiveDir.manifest.exists
    /\ ArchiveDir.summary.metadata.archiveIndex # -1

(***************************************************************************)
(* C25.  Provider auto.                                                    *)
(***************************************************************************)
\* the summarizeText call for mixed_audio.wav has returned
OverallSummarized == dg.pc \in {"participants", "done"} /\ MixedIndex(dg) > 0
\* the transcript that call was given
MixedTranscript == dg.transcripts[MixedIndex(dg)]

DeepgramUsable(short) == Truthy(short) /\ Trim(short.text) # <<>>

C26Returns ==
  /\ dg.pc # "rejected"
  /\ ~dg.mixedSummary.threw /\ ~dg.overall.threw
  /\ \A k \in 1..Len(dg.summaries) : ~dg.summaries[k].threw

C26Order ==
  OverallSummarized =>
    /\ dg.mixedSummary.source \in {"openai", "deepgram", "custom"}
    /\ dg.overall.source \in {"openai", "deepgram", "custom"}
    /\ dg.mixedSummary.source = "openai" =>
         dg.cfg.openaiApiKey /\ dg.cfg.summarizationProvider \in {"auto", "openai"}
    /\ (dg.mixedSummary.source # "openai" /\ Trim(MixedTranscript.text) # <<>>) =>
         (dg.mixedSummary.source = "deepgram" <=> DeepgramUsable(MixedTranscript.deepgramSummary))

C27_ParticipantSummaryWritten ==
  /\ ~ExtractParticipantId(MixedFileName).found
  /\ dg.pc = "done" =>
       \A k \in 1..Len(dg.files) :
         (dg.files[k] # MixedFileName /\ dg.transcripts[k].ok) =>
           /\ ExtractParticipantId(dg.files[k]).found
           /\ dg.summaries[k].source # "none"

(***************************************************************************)
(* C21, C22.  Shutdown.                                                    *)
(***************************************************************************)
\* C21: a session that was open when the shutdown was asked for, and is
\* closed by now, was closed with reason shutdown.
C21_ShutdownClosesOpenSessions ==
  (server.wss # "listening" /\ server.openAtShutdown /\ session.closed) =>
    /\ obs.firstReason = "shutdown"
    /\ fin.reason = "shutdown"

\* C22: when the process has exited after a shutdown, a session that was
\* open at the shutdown has its telemetry flushed and its summary written.
C22_ExitAfterFinalisation ==
  (server.exited /\ server.openAtShutdown) =>
    /\ fin.pc \notin {"open", "telemetry_ending"}
    /\ SummaryWritten

(***************************************************************************)
(* C29.  Two sessions archive at the same time.                            *)
(***************************************************************************)
\* the directories that exist
ArchDirs ==
  {arch.live[s] : s \in {t \in ArchSessions : arch.live[t].exists}}
    \cup {arch.completed[n][i] : n \in ArchNames, i \in ArchIndexes}
\* the completed directories that hold the telemetry of session s
ArchHomes(s) ==
  {<<n, i>> \in ArchNames \X ArchIndexes :
     /\ arch.completed[n][i].exists
     /\ arch.completed[n][i].files["telemetry.ndjson"] = s}
ArchEnded(s) == arch.task[s].pc \in {"done", "stayed", "aborted"}

\* every file of a directory was written by the session whose telemetry
\* the directory holds
C29OwnFiles ==
  \A d \in ArchDirs : d.exists =>
    \A f \in ArchFiles : d.files[f] \in {"none", d.files["telemetry.ndjson"]}

\* a session's recording is in its live directory or in one completed
\* directory, never in both and never gone
C29OneHome ==
  \A s \in ArchSessions :
    IF arch.live[s].exists
    THEN arch.live[s].files["telemetry.ndjson"] = s /\ ArchHomes(s) = {}
    ELSE Cardinality(ArchHomes(s)) = 1

\* the files a task listed are those of its own session
C29OwnListing ==
  \A s \in ArchSessions :
    arch.task[s].pc \in {"manifest", "rewrite", "done"} =>
      /\ ArchHomes(s) = {<<arch.name[s], arch.task[s].dest>>}
      /\ "telemetry.ndjson" \in arch.task[s].listing

\* C29: whatever the interleaving of the archive steps of two sessions, and
\* also when both have the same folder name, each directory holds the files
\* of one session only, and each session's recording is in its live
\* directory or in a completed directory of its own.
C29_SessionsKeepApart ==
  arch.pc = "on" => C29OwnFiles /\ C29OneHome /\ C29OwnListing

\* both sessions found <name> free, one moved there, the other's rename
\* failed and it stayed in live/
C29_Witness ==
  /\ arch.pc = "on"
  /\ arch.name["s1"] = arch.name["s2"]
  /\ arch.task["s1"].pc = "done"
  /\ arch.task["s1"].dest = 0
  /\ arch.task["s2"].pc = "stayed"
  /\ arch.task["s2"].dest = 0
  /\ arch.live["s2"].exists

(***************************************************************************)
(* C31.  Messages of 0 to 3 bytes.                                         *)
(***************************************************************************)
\* what a frame must leave alone besides the counters
C31Untouched ==
  /\ session'.mixedAudioWriter = session.mixedAudioWriter
  /\ session'.participantWriters = session.participantWriters
  /\ session'.pendingMixedAudio = session.pendingMixedAudio
  /\ session'.pendingParticipantAudio = session.pendingParticipantAudio
  /\ session'.audioFormat = session.audioFormat
  /\ disk'.live.telemetry = disk.live.telemetry
  /\ disk'.live.wavs = disk.live.wavs

\* C31: a message of 0, 1, 2 or 3 bytes handed to an open session adds one
\* to unknownFrames and to no other counter, leaves writers, buffers and
\* telemetry alone, and leaves the session open.
C31_ShortMessageCounted ==
  [][inbound' = inbound + 1 =>
       /\ session'.stats = [session.stats EXCEPT !.unknownFrames = @ + 1]
       /\ C31Untouched
       /\ ~session'.closed]_vars

(***************************************************************************)
(* C33.  The device suffix of a participant id.                            *)
(***************************************************************************)
\* the digits of a string, in order
RECURSIVE DigitsOf(_)
DigitsOf(str) ==
  IF str = <<>> THEN <<>>
  ELSE (IF Head(str) \in Digits THEN <<Head(str)>> ELSE <<>>) \o DigitsOf(Tail(str))

\* the run of digits that ends the string
RECURSIVE TrailingDigits(_)
TrailingDigits(str) ==
  IF str = <<>> \/ str[Len(str)] \notin Digits THEN <<>>
  ELSE TrailingDigits(SubSeq(str, 1, Len(str) - 1)) \o <<str[Len(str)]>>

\* the last n elements of a sequence, all of it when it is shorter
LastOf(seq, n) == SubSeq(seq, Max(1, Len(seq) - n + 1), Len(seq))

\* the suffix the rule of three cases gives
C33Described(participantId) ==
  IF TrailingDigits(participantId) # <<>> THEN TrailingDigits(participantId)
  ELSE IF DigitsOf(participantId) # <<>> THEN LastOf(DigitsOf(participantId), 3)
  ELSE StrId

\* C33: extractDeviceSuffix returns the run of digits that ends the id; when
\* the id does not end with a digit, its last three digits taken from
\* anywhere in it; and "id" when it holds no digit.
C33_DeviceSuffixRule ==
  (calc.fn = "extractDeviceSuffix" /\ calc.done) =>
    calc.result = C33Described(calc.arg)

(***************************************************************************)
(* C32.  ParticipantAudio for a participant nobody has named.              *)
(***************************************************************************)
\* participant_<suffix>_<three digits>
C32FallbackLabel(label, suffix) ==
  /\ Len(label) = Len(StrParticipant) + Len(suffix) + 5
  /\ SubSeq(label, 1, Len(label) - 3) = StrParticipant \o <<"_">> \o suffix \o <<"_">>
  /\ \A k \in (Len(label) - 2)..Len(label) : label[k] \in Digits

C32Handled(p) == \E k \in 1..Len(calc.arg) : calc.arg[k] = p

C34Described(sentences) ==
  LET L == Min(3, CeilThreeTenths(Len(sentences)))
  IN  SubSeq(sentences, 1, CeilHalf(L)) \o LastOf(sentences, L \div 2)

\* C34: the summary of a text with N sentences is its first ceil(L / 2)
\* sentences followed by its last floor(L / 2), L = min(3, ceil(0.3 N)),
\* so at most L sentences; and the four lists hold at most 5, 3, 3 and 5
\* entries.
C34_CustomSummaryShape ==
  (calc.fn = "generateCustomSummary" /\ calc.done) =>
    LET sentences == SplitSentences(calc.arg, 1)
    IN  /\ calc.result.summary = C34Described(sentences)
        /\ Len(calc.result.summary) <= Min(3, CeilThreeTenths(Len(sentences)))
        /\ Len(calc.result.keyPoints) <= 5
        /\ Len(calc.result.actionItems) <= 3
        /\ Len(calc.result.decisions) <= 3
        /\ Len(calc.result.topics) <= 5

(***************************************************************************)
(* C35.  Float32 to Int16.                                                 *)
(***************************************************************************)
\* Math.round of the rational a / b, b positive: the nearest integer, a
\* half going up
RoundRatio(a, b) == (2 * a + b) \div (2 * b)

\* the Int16 value the rule gives a sample
C35Described(sample) ==
  IF sample.kind # "num" THEN 0
  ELSE IF sample.q >= FloatDen THEN Int16Max
  ELSE IF sample.q <= 0 - FloatDen THEN 0 - Int16Max
  ELSE RoundRatio(sample.q * Int16Max, FloatDen)

\* C35: a payload of 4k bytes puts 2k bytes into the container, the samples
\* in order: 0 for a sample that is not finite, 32767 and -32767 for samples
\* at or beyond 1 and -1, round(f * 32767) for the others; a payload whose
\* length is no multiple of 4 puts nothing into the container.
C35_ConversionRule ==
  (calc.fn = "convertFloat32ToInt16" /\ calc.done) =>
    LET payload == calc.arg
        file == calc.result.wavs[MixedPath]
        writer == calc.result.s.mixedAudioWriter
    IN  IF payload.extra = 0
        THEN /\ ~calc.result.threw
             /\ 2 * writer.bytesWritten = PayloadBytes(payload)
             /\ FileSize(file) = HeaderBytes + writer.bytesWritten
             /\ Len(file.data) = Len(payload.samples)
             /\ \A i \in 1..Len(payload.samples) :
                  file.data[i] = C35Described(payload.samples[i])
        ELSE /\ file.data = <<>>
             /\ writer.bytesWritten = 0

\* a sample that is not finite and samples beyond 1 and -1, converted
C35_Witness ==
  /\ calc.fn = "convertFloat32ToInt16"
  /\ calc.done
  /\ \E over \in {Num(FloatDen + 1)}, under \in {Num(0 - FloatDen - 1)} :
       \/ /\ calc.arg = Payload(<<NaN, over>>, 0)
          /\ calc.result.wavs[MixedPath].data = <<0, Int16Max>>
       \/ /\ calc.arg = Payload(<<under, PosInf>>, 0)
          /\ calc.result.wavs[MixedPath].data = <<0 - Int16Max, 0>>

(***************************************************************************)
(* The meeting URL.  UrlSpec is the session of ShutdownSpec, whose meeting *)
(* URL is not yet known, receiving MeetingStatusChange events that carry a *)
(* meetingUrl next to the frames of Next.                                  *)
(***************************************************************************)
\* session.ts:119-122, 213-222: a MeetingStatusChange event with a string
\* meetingUrl
RecvJsonStatusChangeUrl ==
  /\ CanDeliverOther
  /\ ~session.closed
  /\ \E change \in MeetingStatusChanges : \E eventUrl \in Urls :
       StatusChangeWith(change, eventUrl)

NextUrl ==
  \/ Next
  \/ RecvJsonStatusChangeUrl

UrlSpec == InitShutdown /\ [][NextUrl]_vars

\* C36: once archive.json is written, the meetingUrl of the metadata in
\* session-summary.json, the meetingUrl of archive.json and the URL the
\* folder name was built from are one value
C36_MeetingUrlAgrees ==
  ArchiveDir.manifest.exists =>
    /\ ArchiveDir.summary.metadata.meetingUrl = ArchiveDir.manifest.meetingUrl
    /\ ArchiveDir.manifest.meetingUrl = fin.slugUrl

(***************************************************************************)
(* Messages after close().  ClosedSpec hands a closed session up to        *)
(* MaxAfterClose further messages of every kind; inbound counts them.      *)
(***************************************************************************)
\* the messages: 1 to 3 bytes, a Video frame, MixedAudio, ParticipantAudio
\* and a UsersUpdate event
InboundFrames ==
  [kind : {"Short", "Video"}]
    \cup [kind : {"MixedAudio"}, payload : AudioPayloads]
    \cup [kind : {"ParticipantAudio"}, frame : ParticipantFrames, randomPart : RandDigits]
    \cup [kind : {"UsersUpdate"}, event : UsersUpdateEvents]

\* session.ts:129-137 and 140-177: the timer is reset and the frame is
\* dispatched; lines is what handleJson adds to telemetry.ndjson
DispatchMessage(m) ==
  CASE m.kind = "Short" ->
         [c |-> CatchDispatch([Entry EXCEPT !.threw = TRUE]), lines |-> 0]
    [] m.kind = "Video" ->
         [c |-> CatchDispatch(BumpStat(Entry, "videoFrames")), lines |-> 0]
    [] m.kind = "MixedAudio" ->
         [c |-> CatchDispatch(HandleMixedAudio(BumpStat(Entry, "mixedAudioFrames"), m.payload)),
          lines |-> 0]
    [] m.kind = "ParticipantAudio" ->
         [c |-> CatchDispatch(HandleParticipantAudio(BumpStat(Entry, "participantAudioFrames"),
                                                     m.frame, m.randomPart)),
          lines |-> 0]
    [] m.kind = "UsersUpdate" ->
         [c |-> CatchJson(AdoptMeetingUrl(HandleUsersUpdate(JsonEntry, m.event), NoUrl)),
          lines |-> TelemetryLines(OneLineJson)]

\* a handleMessage without its guard on closed
HandleMessageWhenClosed(m) ==
  LET r == DispatchMessage(m)
  IN  [s |-> r.c.s, wavs |-> r.c.wavs, lines |-> r.lines]

\* session.ts:119-138: handleMessage returns at once on a closed session
HandleMessage(m) ==
  IF session.closed THEN [s |-> session, wavs |-> disk.live.wavs, lines |-> 0]
  ELSE LET r == DispatchMessage(m)
       IN  [s |-> r.c.s, wavs |-> r.c.wavs, lines |-> r.lines]

\* session.ts:111: a 'message' event of the socket after close()
RecvAfterClose ==
  /\ session.closed
  /\ inbound < MaxAfterClose
  /\ \E m \in InboundFrames :
       LET r == HandleMessage(m)
       IN  /\ session' = r.s
           /\ disk' = [disk EXCEPT !.live.wavs = r.wavs, !.live.telemetry = @ + r.lines]
  /\ inbound' = inbound + 1
  /\ UNCHANGED <<config, socket, fin, pipeline, faultsLeft, obs, now, wavVars,
                 dg, server, arch, calc>>

NextClosed ==
  \/ Next
  \/ RecvAfterClose

ClosedSpec == InitShutdown /\ [][NextClosed]_vars

(***************************************************************************)
(* C37.  A closed session and its messages.                                *)
(***************************************************************************)
\* what the session holds of its messages
C37Held(s, d) ==
  <<s.stats, s.participantInfo, s.audioFormat, s.pendingMixedAudio,
    s.pendingParticipantAudio, s.mixedAudioWriter, s.participantWriters,
    d.live.telemetry, d.live.wavs>>

\* C37: a message handed to a closed session changes neither the counters,
\* the participants, the format, the queued audio, the writers nor the
\* telemetry; the counters of a closed session change in no step, and the
\* summary on disk holds them.
C37_ClosedSessionIgnoresMessages ==
  [][/\ (session.closed /\ inbound' = inbound + 1 =>
          C37Held(session', disk') = C37Held(session, disk))
     /\ (session.closed => session'.stats = session.stats)
     /\ (SummaryWritten' => SessionDir'.summary.stats = session'.stats)]_vars

\* a closed session whose summary is written has been handed MaxAfterClose
\* messages, after counting audio while it was open
C37_Witness ==
  /\ session.closed
  /\ inbound = MaxAfterClose
  /\ SummaryWritten
  /\ session.stats.mixedAudioFrames > 0

(***************************************************************************)
(* C38.  The inactivity timer of a closed session.                         *)
(***************************************************************************)
\* C38: a closed session has no inactivity timer pending, whichever caller
\* closed it and whatever messages reached it afterwards.
C38_NoTimerAfterClose == session.closed => ~session.inactivityTimer.set

\* close() was called by the handler of a frame, after handleMessage had
\* set a new timer for that frame, and a message arrived after it
C38_Witness ==
  /\ session.closed
  /\ obs.firstReason = "removed_from_meeting"
  /\ inbound > 0

(***************************************************************************)
(* C39.  The sizes archive.json records.                                   *)
(***************************************************************************)
\* C39: when finalize has returned for an archived session, every entry of
\* archive.json holds the size its file has on disk.
C39_ManifestSizesCurrent ==
  fin.pc = "done" /\ ArchiveDir.manifest.exists =>
    \A i \in DOMAIN ArchiveDir.manifest.files :
      LET entry == ArchiveDir.manifest.files[i]
      IN  /\ entry.path \in FileNames(ArchiveDir)
          /\ entry.size = StatSize(ArchiveDir, entry.path)

(***************************************************************************)
(* C40.  The audioFiles registry and the writers.                          *)
(***************************************************************************)
\* the participants that have a writer
C40WithWriter == {p \in ParticipantIds : session.participantWriters[p].writer.phase # "absent"}

\* C40: audioFiles.mixed is [mixed_audio.wav] when the mixed writer exists
\* and empty when it does not; the label of every participant writer is a
\* key of audioFiles.participants holding that writer's files; every key of
\* audioFiles.participants is the label of a writer.
C40_RegistryMatchesWriters ==
  /\ session.audioFiles.mixed =
       IF session.mixedAudioWriter.phase # "absent" THEN <<MixedPath>> ELSE <<>>
  /\ \A p \in C40WithWriter :
       LET state == session.participantWriters[p]
       IN  /\ state.label \in DOMAIN session.audioFiles.participants
           /\ session.audioFiles.participants[state.label] = state.files
  /\ \A label \in DOMAIN session.audioFiles.participants :
       \E p \in C40WithWriter : session.participantWriters[p].label = label

\* the mixed writer and the writers of two participants exist
C40_Witness ==
  /\ session.mixedAudioWriter.phase # "absent"
  /\ Cardinality(C40WithWriter) >= 2

====
